---- MODULE Spec2Model ----
(***************************************************************************)
(* Model of the ingestion-and-classification pipeline of the bot:          *)
(*   TokenListener (ledger feed + transaction resolver)                    *)
(*     -> 'transfer' -> BuyDetector -> 'buy' -> LargeBuyAlerts             *)
(*     -> 'transfer' -> NewHolderDetector -> 'newHolder'                   *)
(*   MarketCapMilestones (timer-driven poller) -> 'milestone'              *)
(*                                                                         *)
(* Every asynchronous function is cut at its awaits: the part up to the    *)
(* await runs inside the action that calls it, the part after the await    *)
(* is a "...Resume" action that takes the awaited result as its input.     *)
(* Event emission is synchronous (EventEmitter.emit calls the listeners    *)
(* in registration order before it returns), so the listeners of an event  *)
(* run inside the action that emits it.                                    *)
(***************************************************************************)
EXTENDS Integers, Sequences, FiniteSets, Bags, TLC

VARIABLES
    listening,          \* Bag of components: the handlers subscribed to their upstream event
    handlerRef,         \* components whose transferHandler / buyHandler field holds a handler
    thresholdEnv,       \* process.env.LARGE_BUY_USD
    feedLeft,           \* signatures the ledger feed will still announce
    callsLeft,          \* calls of reset/initialisation operations still to come
    pendingTx,          \* Bag of signatures whose getTransaction is in flight
    ammVaults,          \* BuyDetector.ammVaults
    walletBalances,     \* NewHolderDetector.walletBalances (Map owner -> balance)
    alertedWallets,     \* NewHolderDetector.alertedWallets
    threshold,          \* LargeBuyAlerts.threshold
    sentAlerts,         \* LargeBuyAlerts.sentAlerts
    pendingBuys,        \* Bag of buyData whose fetchTokenStats is in flight
    milestones,         \* MarketCapMilestones.milestones
    reachedMilestones,  \* MarketCapMilestones.reachedMilestones
    lastMarketCap,      \* MarketCapMilestones.lastMarketCap
    isMonitoring,       \* MarketCapMilestones.isMonitoring
    pendingPolls,       \* number of checkMarketCap calls awaiting fetchTokenStats
    ticksLeft,          \* firings of the interval timer still to come
    lastOp,             \* the operation the last step ran, with its inputs
    emitted,            \* the events the last step emitted, in emission order
    emitCount,          \* per event type and key: how many events were emitted
    lastPost,           \* per owner: postAmount of the last change handled for it
    failedSends,        \* signatures of the alerts for which sendMessage returned false
    largestSample,      \* the largest valid market cap a poll has fetched, 0 if none
    resets,             \* the reset/initialisation operations called so far
    readyState,         \* the client's 'ready' handler: "pending", "done" or "rejected"
    voiceTimer,         \* TRUE when the periodic voice-channel update is installed
    voiceUpdates,       \* calls of updateVoiceChannelName so far
    contestStartTime,   \* ContestReminders.contestStartTime
    contestEndTime,     \* ContestReminders.contestEndTime
    jobs,               \* ContestReminders.jobs
    isScheduled,        \* ContestReminders.isScheduled
    clock               \* the current time, in hours

vars == <<listening, handlerRef, thresholdEnv, feedLeft, callsLeft, pendingTx, ammVaults, walletBalances, alertedWallets,
          threshold, sentAlerts, pendingBuys, milestones, reachedMilestones,
          lastMarketCap, isMonitoring, pendingPolls, ticksLeft, lastOp, emitted,
          emitCount, lastPost, failedSends, largestSample, resets, readyState, voiceTimer, voiceUpdates,
          contestStartTime, contestEndTime, jobs, isScheduled, clock>>

listenerVars == <<listening, handlerRef, feedLeft, pendingTx>>
apiVars      == <<callsLeft, resets>>
historyVars  == <<emitCount, lastPost, failedSends, largestSample>>
buyVars      == <<ammVaults>>
holderVars   == <<walletBalances, alertedWallets>>
alertVars    == <<threshold, thresholdEnv, sentAlerts, pendingBuys>>
appVars      == <<readyState, voiceTimer, voiceUpdates>>
contestVars  == <<contestStartTime, contestEndTime, jobs, isScheduled, clock>>
mcapVars     == <<milestones, reachedMilestones, lastMarketCap, isMonitoring,
                  pendingPolls, ticksLeft>>

----------------------------------------------------------------------------
(* Bounds of the model.                                                    *)

MaxAnnounce  == 2     \* signatures the feed announces on the purchase path
MaxTransfers == 2     \* signatures the feed announces on the holder path
MaxApiCalls  == 1     \* calls of clearCache, clear, setBalance, ... in one behaviour
MaxAmount    == 1     \* largest token balance of an account in the pipeline
MaxPrice     == 3     \* largest unit price the price source reports
MaxBuyAmount == 2     \* largest token balance seen by the purchase classifier
MaxCap       == 3     \* largest configured milestone
MaxTicks     == 2     \* firings of the interval timer in one behaviour
MaxLifecycleCalls == 3  \* calls of start() and stop() in one behaviour
MaxResets    == 3     \* calls of the reset operations in one behaviour
MaxProcessCalls == 2  \* calls of public operations on the running process
MaxDays      == 1     \* days between now and the latest contest time
MaxVoiceUpdates == 2  \* firings of the voice-channel update timer
MaxContestCalls == 3  \* calls of start() and stop() of the contest reminders
MaxClock     == 2     \* hours that pass in one behaviour

\* The signatures of the ledger's transactions; the feed of the purchase
\* path announces the first two, possibly more than once.
LedgerSignature == <<"s1", "s2", "s3", "s4">>
Signatures      == {"s1", "s2"}
TOKEN_MINT == "MINT"

\* Token accounts of the ledger: account index -> owner.
AccountOwner == <<"P", "B", "C", "B">>
Accounts     == 1..Len(AccountOwner)
Owners       == {AccountOwner[a] : a \in Accounts}

Amounts == 0..MaxAmount

----------------------------------------------------------------------------
(* Values of the JavaScript runtime.                                       *)

\* parseFloat(uiAmountString || '0'): a missing or empty string reads as 0.
\* A decimal string is modelled as <<n>>, a missing one as <<>>.
ParseUiAmount(uiAmountString) ==
    IF uiAmountString = <<>> THEN 0 ELSE uiAmountString[1]

\* Array.prototype.find: index of the first element satisfying Test, 0 if none.
RECURSIVE FindPre(_, _, _)
FindPre(preTokenBalances, accountIndex, i) ==
    IF i > Len(preTokenBalances) THEN 0
    ELSE IF preTokenBalances[i].accountIndex = accountIndex THEN i
    ELSE FindPre(preTokenBalances, accountIndex, i + 1)

\* Map.get(key) || 0
MapGetOr0(map, key) ==
    IF key \in DOMAIN map /\ map[key] # 0 THEN map[key] ELSE 0

\* Map.set(key, value)
MapSet(map, key, value) ==
    [k \in (DOMAIN map) \cup {key} |-> IF k = key THEN value ELSE map[k]]

EmptyMap == [k \in {} |-> 0]

Range(f) == {f[x] : x \in DOMAIN f}

----------------------------------------------------------------------------
(* Inputs from the collaborators.                                          *)

\* One entry of tx.meta.preTokenBalances / postTokenBalances.
TokenBalance(a, mint, amount) ==
    [accountIndex |-> a, mint |-> mint, owner |-> AccountOwner[a],
     uiAmountString |-> <<amount>>]

\* The entries of the accounts in S, in account order; amt[a] is the amount.
RECURSIVE BalanceList(_, _, _)
BalanceList(S, amt, a) ==
    IF a > Len(AccountOwner) THEN <<>>
    ELSE (IF a \in S THEN <<TokenBalance(a, TOKEN_MINT, amt[a])>> ELSE <<>>)
         \o BalanceList(S, amt, a + 1)

\* Transactions of the tracked token that list accounts of `accts`, each
\* with a balance of `amounts` before and after.
TxsOver(accts, amounts) ==
    { [kind |-> "tx",
       meta |-> [preTokenBalances  |-> BalanceList(S, pre, 1),
                 postTokenBalances |-> BalanceList(S, post, 1)]] :
        <<S, pre, post>> \in
            UNION { {S} \X [S -> amounts] \X [S -> amounts] : S \in SUBSET accts } }

\* Transactions of the tracked token whose snapshots before and after list
\* accounts of `accts` independently: an account opened by the transaction
\* is in the snapshot after only, an account closed by it in the one before.
SnapshotTxs(accts, amounts) ==
    { [kind |-> "tx",
       meta |-> [preTokenBalances  |-> BalanceList(q[1], q[2], 1),
                 postTokenBalances |-> BalanceList(q[3], q[4], 1)]] :
        q \in UNION { {Spre} \X [Spre -> amounts] \X {Spost} \X [Spost -> amounts] :
                        <<Spre, Spost>> \in (SUBSET accts) \X (SUBSET accts) } }

\* What connection.getTransaction can yield: nothing, an exception, a record
\* without meta, or a transaction.
NoTxResults == {[kind |-> "null"], [kind |-> "throws"], [kind |-> "nometa"]}

\* The purchase path sees a pool account and a wallet.
PurchaseTxResults == NoTxResults \cup TxsOver({1, 2}, Amounts)

\* What fetchTokenStats can yield: null, or the statistics of the pair.
Stats(priceUsd, marketCap) ==
    [kind |-> "stats", priceUsd |-> priceUsd, marketCap |-> marketCap]
PipelineStats == {[kind |-> "null"]} \cup {Stats(p, 0) : p \in 0..MaxPrice}

\* process.env.  AMM_VAULTS and MARKET_CAP_MILESTONES are lists of trimmed
\* non-empty strings; a string that parseFloat reads as a number n is Num(n),
\* any other string is NotANumber, an unset or blank variable is Unset.
Num(n)     == [kind |-> "num", value |-> n]
NotANumber == [kind |-> "nan"]
Unset      == [kind |-> "unset"]

\* The environment of the purchase and holder paths.
AMM_VAULTS    == <<"P", "not-base58">>
LARGE_BUY_USD == Num(2)

----------------------------------------------------------------------------
(* TokenListener.parseTransaction, after getTransaction has returned tx.   *)

RECURSIVE RelevantChanges(_, _, _, _)
RelevantChanges(preTokenBalances, postTokenBalances, tokenMint, i) ==
    IF i > Len(postTokenBalances) THEN <<>>
    ELSE
      LET postBalance == postTokenBalances[i]
          rest == RelevantChanges(preTokenBalances, postTokenBalances, tokenMint, i + 1)
      IN IF postBalance.mint = tokenMint
         THEN LET pre        == FindPre(preTokenBalances, postBalance.accountIndex, 1)
                  preAmount  == IF pre # 0
                                THEN ParseUiAmount(preTokenBalances[pre].uiAmountString)
                                ELSE 0
                  postAmount == ParseUiAmount(postBalance.uiAmountString)
                  change     == postAmount - preAmount
              IN IF change # 0
                 THEN << [accountIndex |-> postBalance.accountIndex,
                          owner        |-> postBalance.owner,
                          mint         |-> postBalance.mint,
                          change       |-> change,
                          preAmount    |-> preAmount,
                          postAmount   |-> postAmount] >> \o rest
                 ELSE rest
         ELSE rest

\* parseTransaction that emits an event whether or not it found a change.
ParseTransaction_emitsEmpty(signature, tx, tokenMint) ==
    IF tx.kind # "tx" THEN <<>>
    ELSE << [type      |-> "transfer",
             signature |-> signature,
             tokenMint |-> tokenMint,
             changes   |-> RelevantChanges(tx.meta.preTokenBalances,
                                           tx.meta.postTokenBalances,
                                           tokenMint, 1)] >>

\* The 'transfer' events parseTransaction emits for (signature, tx): <<>> or one.
ParseTransaction(signature, tx, tokenMint) ==
    IF tx.kind # "tx" THEN <<>>
    ELSE LET relevantChanges == RelevantChanges(tx.meta.preTokenBalances,
                                                tx.meta.postTokenBalances,
                                                tokenMint, 1)
         IN IF Len(relevantChanges) > 0
            THEN << [type      |-> "transfer",
                     signature |-> signature,
                     tokenMint |-> tokenMint,
                     changes   |-> relevantChanges] >>
            ELSE <<>>

\* parseTransaction with no catch around its body: what getTransaction
\* throws rejects the promise.
ParseTransactionRejects_uncaught(tx) == tx.kind = "throws"

\* Whether the promise of parseTransaction rejects.  Its whole body is in
\* try { ... } catch (error) { }: what getTransaction throws is caught and
\* dropped, and the function returns.
ParseTransactionRejects(tx) ==
    LET thrown == tx.kind = "throws"
        caught == TRUE
    IN thrown /\ ~caught

----------------------------------------------------------------------------
(* BuyDetector                                                             *)

\* new PublicKey(address) succeeds: the address is a base58 account address.
IsPublicKey(address) == address \in Owners

\* loadAmmVaults that keeps every address of the list.
LoadAmmVaults_keepsAll(addresses) == addresses

\* loadAmmVaults: the valid addresses of the list, in order.
LoadAmmVaults(addresses) == SelectSeq(addresses, IsPublicKey)

\* Array.prototype.includes
Includes(array, x) == \E i \in 1..Len(array) : array[i] = x

\* reduce((sum, change) => sum + change.change, 0)
RECURSIVE SumChange(_)
SumChange(transfers) ==
    IF transfers = <<>> THEN 0
    ELSE Head(transfers).change + SumChange(Tail(transfers))

\* detectBuy that asks for a wallet inflow only, not for a pool outflow.
DetectBuy_anyInflow(transferData, vaults) ==
    LET changes == transferData.changes
        IsAmmVaultTransfer(c) == c.change < 0 /\ Includes(vaults, c.owner)
        IsWalletTransfer(c)   == c.change > 0 /\ ~Includes(vaults, c.owner)
        ammVaultTransfers == SelectSeq(changes, IsAmmVaultTransfer)
        walletTransfers   == SelectSeq(changes, IsWalletTransfer)
    IN IF Len(walletTransfers) > 0
       THEN << [type      |-> "buy",
                signature |-> transferData.signature,
                tokenMint |-> transferData.tokenMint,
                buyer     |-> walletTransfers[1].owner,
                ammVault  |-> IF Len(ammVaultTransfers) > 0
                              THEN ammVaultTransfers[1].owner ELSE "",
                amount    |-> SumChange(walletTransfers),
                walletTransfers   |-> walletTransfers,
                ammVaultTransfers |-> ammVaultTransfers] >>
       ELSE <<>>

\* detectBuy that names the receiver of the largest inflow as the buyer.
DetectBuy_largestBuyer(transferData, vaults) ==
    LET changes == transferData.changes
        IsAmmVaultTransfer(c) == c.change < 0 /\ Includes(vaults, c.owner)
        IsWalletTransfer(c)   == c.change > 0 /\ ~Includes(vaults, c.owner)
        ammVaultTransfers == SelectSeq(changes, IsAmmVaultTransfer)
        walletTransfers   == SelectSeq(changes, IsWalletTransfer)
        largest == CHOOSE i \in 1..Len(walletTransfers) :
                      \A j \in 1..Len(walletTransfers) :
                          \/ walletTransfers[j].change < walletTransfers[i].change
                          \/ (walletTransfers[j].change = walletTransfers[i].change
                              /\ i <= j)
    IN IF Len(changes) = 0 THEN <<>>
       ELSE IF Len(ammVaultTransfers) > 0 /\ Len(walletTransfers) > 0
       THEN << [type      |-> "buy",
                signature |-> transferData.signature,
                tokenMint |-> transferData.tokenMint,
                buyer     |-> walletTransfers[largest].owner,
                ammVault  |-> ammVaultTransfers[1].owner,
                amount    |-> SumChange(walletTransfers),
                walletTransfers   |-> walletTransfers,
                ammVaultTransfers |-> ammVaultTransfers] >>
       ELSE <<>>

\* detectBuy that names as ammVault the first account that sent tokens,
\* pool account or not.
DetectBuy_firstSender(transferData, vaults) ==
    LET changes == transferData.changes
        IsAmmVaultTransfer(c) == c.change < 0 /\ Includes(vaults, c.owner)
        IsWalletTransfer(c)   == c.change > 0 /\ ~Includes(vaults, c.owner)
        IsSender(c)           == c.change < 0
        ammVaultTransfers == SelectSeq(changes, IsAmmVaultTransfer)
        walletTransfers   == SelectSeq(changes, IsWalletTransfer)
    IN IF Len(changes) = 0 THEN <<>>
       ELSE IF Len(ammVaultTransfers) > 0 /\ Len(walletTransfers) > 0
       THEN << [type      |-> "buy",
                signature |-> transferData.signature,
                tokenMint |-> transferData.tokenMint,
                buyer     |-> walletTransfers[1].owner,
                ammVault  |-> SelectSeq(changes, IsSender)[1].owner,
                amount    |-> SumChange(walletTransfers),
                walletTransfers   |-> walletTransfers,
                ammVaultTransfers |-> ammVaultTransfers] >>
       ELSE <<>>

\* The 'buy' events detectBuy emits for a 'transfer' event: <<>> or one.
DetectBuy(transferData, vaults) ==
    LET changes == transferData.changes
        IsAmmVaultTransfer(c) == c.change < 0 /\ Includes(vaults, c.owner)
        IsWalletTransfer(c)   == c.change > 0 /\ ~Includes(vaults, c.owner)
        ammVaultTransfers == SelectSeq(changes, IsAmmVaultTransfer)
        walletTransfers   == SelectSeq(changes, IsWalletTransfer)
    IN IF Len(changes) = 0 THEN <<>>
       ELSE IF Len(ammVaultTransfers) > 0 /\ Len(walletTransfers) > 0
       THEN << [type      |-> "buy",
                signature |-> transferData.signature,
                tokenMint |-> transferData.tokenMint,
                buyer     |-> walletTransfers[1].owner,
                ammVault  |-> ammVaultTransfers[1].owner,
                amount    |-> SumChange(walletTransfers),
                walletTransfers   |-> walletTransfers,
                ammVaultTransfers |-> ammVaultTransfers] >>
       ELSE <<>>

----------------------------------------------------------------------------
(* NewHolderDetector                                                       *)

\* detectNewHolder without its check of the Alerted-Set.
DetectNewHolder_unguarded(walletAddress, balance, transferData, alerted) ==
    [alertedWallets |-> alerted \cup {walletAddress},
     emitted |-> << [type      |-> "newHolder",
                     wallet    |-> walletAddress,
                     balance   |-> balance,
                     signature |-> transferData.signature,
                     tokenMint |-> transferData.tokenMint] >>]

\* detectNewHolder: the Alerted-Set afterwards and the 'newHolder' events.
DetectNewHolder(walletAddress, balance, transferData, alerted) ==
    IF walletAddress \in alerted
    THEN [alertedWallets |-> alerted, emitted |-> <<>>]
    ELSE [alertedWallets |-> alerted \cup {walletAddress},
          emitted |-> << [type      |-> "newHolder",
                          wallet    |-> walletAddress,
                          balance   |-> balance,
                          signature |-> transferData.signature,
                          tokenMint |-> transferData.tokenMint] >>]

\* The loop body that writes the balance only when it is positive.
HandleChange_skipsZero(change, transferData, balances, alerted) ==
    LET walletAddress   == change.owner
        previousBalance == MapGetOr0(balances, walletAddress)
        newBalance      == change.postAmount
        detected        == IF previousBalance = 0 /\ newBalance > 0
                           THEN DetectNewHolder(walletAddress, newBalance,
                                                transferData, alerted)
                           ELSE [alertedWallets |-> alerted, emitted |-> <<>>]
    IN [walletBalances |-> IF newBalance > 0
                           THEN MapSet(balances, walletAddress, newBalance)
                           ELSE balances,
        alertedWallets |-> detected.alertedWallets,
        emitted        |-> detected.emitted]

\* The loop body that takes every positive balance for a new holder's.
HandleChange_anyPositive(change, transferData, balances, alerted) ==
    LET walletAddress == change.owner
        newBalance    == change.postAmount
        detected      == IF newBalance > 0
                         THEN DetectNewHolder(walletAddress, newBalance,
                                              transferData, alerted)
                         ELSE [alertedWallets |-> alerted, emitted |-> <<>>]
    IN [walletBalances |-> MapSet(balances, walletAddress, newBalance),
        alertedWallets |-> detected.alertedWallets,
        emitted        |-> detected.emitted]

\* A loop body that deletes the entry of a wallet whose balance falls to 0.
HandleChange_dropsEmptied(change, transferData, balances, alerted) ==
    LET walletAddress   == change.owner
        previousBalance == MapGetOr0(balances, walletAddress)
        newBalance      == change.postAmount
        wasZero         == previousBalance = 0
        isNowPositive   == newBalance > 0
        detected        == IF wasZero /\ isNowPositive
                           THEN DetectNewHolder(walletAddress, newBalance,
                                                transferData, alerted)
                           ELSE [alertedWallets |-> alerted, emitted |-> <<>>]
    IN [walletBalances |-> IF newBalance = 0
                           THEN [k \in DOMAIN balances \ {walletAddress} |-> balances[k]]
                           ELSE MapSet(balances, walletAddress, newBalance),
        alertedWallets |-> detected.alertedWallets,
        emitted        |-> detected.emitted]

\* The body of the loop of handleTransfer for one change.
HandleChange(change, transferData, balances, alerted) ==
    LET walletAddress   == change.owner
        previousBalance == MapGetOr0(balances, walletAddress)
        newBalance      == change.postAmount
        wasZero         == previousBalance = 0
        isNowPositive   == newBalance > 0
        detected        == IF wasZero /\ isNowPositive
                           THEN DetectNewHolder(walletAddress, newBalance,
                                                transferData, alerted)
                           ELSE [alertedWallets |-> alerted, emitted |-> <<>>]
    IN [walletBalances |-> MapSet(balances, walletAddress, newBalance),
        alertedWallets |-> detected.alertedWallets,
        emitted        |-> detected.emitted]

\* handleTransfer from change i on.
RECURSIVE HandleChangesFrom(_, _, _, _)
HandleChangesFrom(transferData, i, balances, alerted) ==
    IF i > Len(transferData.changes)
    THEN [walletBalances |-> balances, alertedWallets |-> alerted, emitted |-> <<>>]
    ELSE LET one  == HandleChange(transferData.changes[i], transferData,
                                  balances, alerted)
             rest == HandleChangesFrom(transferData, i + 1,
                                       one.walletBalances, one.alertedWallets)
         IN [rest EXCEPT !.emitted = one.emitted \o @]

\* handleTransfer that keeps to ledger order: it drops the event of the
\* oldest transaction when it arrives after another event has been applied.
HandleTransfer_slotOrder(transferData, balances, alerted) ==
    IF transferData.signature = LedgerSignature[1] /\ balances # EmptyMap
    THEN [walletBalances |-> balances, alertedWallets |-> alerted, emitted |-> <<>>]
    ELSE HandleChangesFrom(transferData, 1, balances, alerted)

\* handleTransfer that handles the first change and leaves the others to a
\* later turn.
HandleTransfer_firstChangeOnly(transferData, balances, alerted) ==
    HandleChange(transferData.changes[1], transferData, balances, alerted)

\* handleTransfer: the Balance Map and Alerted-Set afterwards, and the
\* 'newHolder' events in emission order.
HandleTransfer(transferData, balances, alerted) ==
    HandleChangesFrom(transferData, 1, balances, alerted)

\* The loop of handleTransfer when the listener of 'newHolder' throws:
\* emit() passes the exception on, detectNewHolder does not catch it, and
\* the catch of handleTransfer, which is around the loop, ends the loop.
RECURSIVE HandleChangesFromThrown(_, _, _, _)
HandleChangesFromThrown(transferData, i, balances, alerted) ==
    IF i > Len(transferData.changes)
    THEN [walletBalances |-> balances, alertedWallets |-> alerted, emitted |-> <<>>]
    ELSE LET one == HandleChange(transferData.changes[i], transferData,
                                 balances, alerted)
         IN IF one.emitted # <<>> THEN one
            ELSE HandleChangesFromThrown(transferData, i + 1,
                                         one.walletBalances, one.alertedWallets)

\* handleTransfer when the listener of 'newHolder' throws.
HandleTransferThrown(transferData, balances, alerted) ==
    HandleChangesFromThrown(transferData, 1, balances, alerted)

\* The n handlers of the detector subscribed to 'transfer' handle the event
\* one after the other.
RECURSIVE TransferHandlers(_, _, _, _, _)
TransferHandlers(n, transferData, balances, alerted, listenerThrows) ==
    IF n = 0
    THEN [walletBalances |-> balances, alertedWallets |-> alerted, emitted |-> <<>>]
    ELSE LET one  == IF listenerThrows
                     THEN HandleTransferThrown(transferData, balances, alerted)
                     ELSE HandleTransfer(transferData, balances, alerted)
             rest == TransferHandlers(n - 1, transferData, one.walletBalances,
                                      one.alertedWallets, listenerThrows)
         IN [rest EXCEPT !.emitted = one.emitted \o @]

----------------------------------------------------------------------------
(* LargeBuyAlerts                                                          *)

\* loadThreshold that keeps a setting that is not positive.
LoadThreshold_keepsNonPositive(env) ==
    IF env.kind = "unset" THEN 0
    ELSE IF env.kind = "nan" THEN 0
    ELSE env.value

\* loadThreshold: parseFloat of the setting, 0 when unset, NaN or <= 0.
LoadThreshold(env) ==
    IF env.kind = "unset" THEN 0
    ELSE IF env.kind = "nan" THEN 0
    ELSE IF env.value <= 0 THEN 0
    ELSE env.value

\* const { signature, amount, buyer, timestamp } = buyData: what handleBuy
\* keeps of the event across its awaits.
Destructured(buyData) ==
    [signature |-> buyData.signature, amount |-> buyData.amount,
     buyer |-> buyData.buyer]

\* handleBuy up to its first await: TRUE when it goes on to fetch the price.
HandleBuyFetches(buyData, sent) == buyData.signature \notin sent

\* The handleBuy calls that the 'buy' events leave awaiting the price (a Bag).
RECURSIVE StartedFetches(_, _)
StartedFetches(buys, sent) ==
    IF buys = <<>> THEN EmptyBag
    ELSE (IF HandleBuyFetches(Head(buys), sent)
          THEN SetToBag({Destructured(Head(buys))}) ELSE EmptyBag)
         (+) StartedFetches(Tail(buys), sent)

\* The events that n subscribed handlers emit when each emits `events`.
RECURSIVE Repeated(_, _)
Repeated(events, n) == IF n = 0 THEN <<>> ELSE events \o Repeated(events, n - 1)

\* handleBuy that alerts only above the threshold, not at it.
HandleBuyResumed_strict(buyData, tokenStats, sent, thr) ==
    IF tokenStats.kind = "null" \/ tokenStats.priceUsd = 0
    THEN [sentAlerts |-> sent, emitted |-> <<>>]
    ELSE LET buyAmountUsd == buyData.amount * tokenStats.priceUsd
         IN IF buyAmountUsd > thr
            THEN [sentAlerts |-> sent \cup {buyData.signature},
                  emitted |-> << [type      |-> "alert",
                                  signature |-> buyData.signature,
                                  buyer     |-> buyData.buyer,
                                  amount    |-> buyData.amount,
                                  usdValue  |-> buyAmountUsd,
                                  price     |-> tokenStats.priceUsd] >>]
            ELSE [sentAlerts |-> sent, emitted |-> <<>>]

\* handleBuy that marks a purchase it could not price as handled.
HandleBuyResumed_marksUnpriced(buyData, tokenStats, sent, thr) ==
    IF tokenStats.kind = "null" \/ tokenStats.priceUsd = 0
    THEN [sentAlerts |-> sent \cup {buyData.signature}, emitted |-> <<>>]
    ELSE LET buyAmountUsd == buyData.amount * tokenStats.priceUsd
         IN IF buyAmountUsd >= thr
            THEN [sentAlerts |-> sent \cup {buyData.signature},
                  emitted |-> << [type      |-> "alert",
                                  signature |-> buyData.signature,
                                  buyer     |-> buyData.buyer,
                                  amount    |-> buyData.amount,
                                  usdValue  |-> buyAmountUsd,
                                  price     |-> tokenStats.priceUsd] >>]
            ELSE [sentAlerts |-> sent, emitted |-> <<>>]

\* handleBuy that marks a purchase below the threshold as handled.
HandleBuyResumed_marksSmall(buyData, tokenStats, sent, thr) ==
    IF tokenStats.kind = "null" \/ tokenStats.priceUsd = 0
    THEN [sentAlerts |-> sent, emitted |-> <<>>]
    ELSE LET buyAmountUsd == buyData.amount * tokenStats.priceUsd
         IN IF buyAmountUsd >= thr
            THEN [sentAlerts |-> sent \cup {buyData.signature},
                  emitted |-> << [type      |-> "alert",
                                  signature |-> buyData.signature,
                                  buyer     |-> buyData.buyer,
                                  amount    |-> buyData.amount,
                                  usdValue  |-> buyAmountUsd,
                                  price     |-> tokenStats.priceUsd] >>]
            ELSE [sentAlerts |-> sent \cup {buyData.signature}, emitted |-> <<>>]

\* handleBuy after fetchTokenStats has returned tokenStats: the Alerted-Set
\* afterwards and the messages handed to sendMessage.
HandleBuyResumed(buyData, tokenStats, sent, thr) ==
    IF tokenStats.kind = "null" \/ tokenStats.priceUsd = 0
    THEN [sentAlerts |-> sent, emitted |-> <<>>]
    ELSE LET buyAmountUsd == buyData.amount * tokenStats.priceUsd
         IN IF buyAmountUsd >= thr
            THEN [sentAlerts |-> sent \cup {buyData.signature},
                  emitted |-> << [type      |-> "alert",
                                  signature |-> buyData.signature,
                                  buyer     |-> buyData.buyer,
                                  amount    |-> buyData.amount,
                                  usdValue  |-> buyAmountUsd,
                                  price     |-> tokenStats.priceUsd] >>]
            ELSE [sentAlerts |-> sent, emitted |-> <<>>]

\* What sendMessage meets: TEXT_CHANNEL_ID not configured, channels.fetch
\* throwing, no channel, a channel that is not text-based, channel.send
\* rejecting, or a text channel that takes the message.
Channels == {"unset", "fetchThrows", "absent", "notText", "sendRejects", "text"}

\* sendMessage(client, message): TRUE when the message was sent; every
\* failure is caught and returns FALSE.
SendMessage(channel) == channel = "text"

\* handleBuy that takes the signature back out of the Alerted-Set when the
\* send fails.
HandleBuySent_retriesFailed(buyData, tokenStats, sent, thr, channel) ==
    LET r == HandleBuyResumed(buyData, tokenStats, sent, thr)
        failed == r.emitted # <<>> /\ ~SendMessage(channel)
    IN [sentAlerts |-> IF failed THEN sent \ {buyData.signature} ELSE r.sentAlerts,
        emitted    |-> r.emitted,
        failed     |-> failed]

\* handleBuy after fetchTokenStats has returned, to its end: the signature
\* is added before sendMessage is awaited and the value sendMessage returns
\* is not looked at.  `failed` tells that a send was made and returned false.
HandleBuySent(buyData, tokenStats, sent, thr, channel) ==
    LET r == HandleBuyResumed(buyData, tokenStats, sent, thr)
    IN [sentAlerts |-> r.sentAlerts,
        emitted    |-> r.emitted,
        failed     |-> r.emitted # <<>> /\ ~SendMessage(channel)]

----------------------------------------------------------------------------
(* MarketCapMilestones                                                     *)

\* Array.prototype.sort((a, b) => a - b)
RECURSIVE InsertAscending(_, _)
InsertAscending(sorted, x) ==
    IF sorted = <<>> THEN <<x>>
    ELSE IF x < Head(sorted) THEN <<x>> \o sorted
    ELSE <<Head(sorted)>> \o InsertAscending(Tail(sorted), x)

RECURSIVE SortAscending(_)
SortAscending(array) ==
    IF array = <<>> THEN <<>>
    ELSE InsertAscending(SortAscending(Tail(array)), Head(array))

\* The loop of loadMilestones: the settings that parse to a number > 0.
RECURSIVE ValidMilestones(_)
ValidMilestones(settings) ==
    IF settings = <<>> THEN <<>>
    ELSE LET milestoneStr == Head(settings)
             rest == ValidMilestones(Tail(settings))
         IN IF milestoneStr.kind = "nan" THEN rest
            ELSE IF milestoneStr.value <= 0 THEN rest
            ELSE <<milestoneStr.value>> \o rest

\* loadMilestones that keeps the milestones in the order they were written.
LoadMilestones_unsorted(settings) == ValidMilestones(settings)

\* loadMilestones
LoadMilestones(settings) == SortAscending(ValidMilestones(settings))

\* The loop of checkMilestones from milestone i on: the reached set
\* afterwards and the 'milestone' events in emission order.
RECURSIVE CheckMilestonesFrom(_, _, _, _)
CheckMilestonesFrom(ms, i, marketCap, reached) ==
    IF i > Len(ms) THEN [reachedMilestones |-> reached, emitted |-> <<>>]
    ELSE LET milestone == ms[i]
         IN IF milestone \in reached
            THEN CheckMilestonesFrom(ms, i + 1, marketCap, reached)
            ELSE IF marketCap >= milestone
            THEN LET rest == CheckMilestonesFrom(ms, i + 1, marketCap,
                                                 reached \cup {milestone})
                 IN [rest EXCEPT !.emitted =
                        << [type      |-> "milestone",
                            milestone |-> milestone,
                            marketCap |-> marketCap] >> \o @]
            ELSE CheckMilestonesFrom(ms, i + 1, marketCap, reached)

\* checkMilestones that keeps as reached only what the sample still reaches.
CheckMilestones_tracksSample(marketCap, ms, reached, last) ==
    IF Len(ms) = 0 \/ marketCap <= 0
    THEN [reachedMilestones |-> reached, lastMarketCap |-> last, emitted |-> <<>>]
    ELSE LET r == CheckMilestonesFrom(ms, 1, marketCap, reached)
         IN [reachedMilestones |-> {m \in r.reachedMilestones : marketCap >= m},
             lastMarketCap     |-> marketCap,
             emitted           |-> r.emitted]

\* checkMilestones that announces only the highest milestone it crosses.
CheckMilestones_highestOnly(marketCap, ms, reached, last) ==
    IF Len(ms) = 0 \/ marketCap <= 0
    THEN [reachedMilestones |-> reached, lastMarketCap |-> last, emitted |-> <<>>]
    ELSE LET r == CheckMilestonesFrom(ms, 1, marketCap, reached)
         IN [reachedMilestones |-> r.reachedMilestones,
             lastMarketCap     |-> marketCap,
             emitted           |-> IF r.emitted = <<>> THEN <<>>
                                   ELSE <<r.emitted[Len(r.emitted)]>>]

\* checkMilestones that records a sample without asking that it is positive.
CheckMilestones_recordsInvalid(marketCap, ms, reached, last) ==
    IF Len(ms) = 0
    THEN [reachedMilestones |-> reached, lastMarketCap |-> last, emitted |-> <<>>]
    ELSE LET r == CheckMilestonesFrom(ms, 1, marketCap, reached)
         IN [reachedMilestones |-> r.reachedMilestones,
             lastMarketCap     |-> marketCap,
             emitted           |-> r.emitted]

\* checkMilestones that keeps as reached only the milestones of this sample.
CheckMilestones_forgetsEarlier(marketCap, ms, reached, last) ==
    IF Len(ms) = 0 \/ marketCap <= 0
    THEN [reachedMilestones |-> reached, lastMarketCap |-> last, emitted |-> <<>>]
    ELSE LET r == CheckMilestonesFrom(ms, 1, marketCap, reached)
         IN [reachedMilestones |-> r.reachedMilestones \ reached,
             lastMarketCap     |-> marketCap,
             emitted           |-> r.emitted]

\* checkMilestones that takes a milestone as reached only when the sample
\* is above it.
CheckMilestones_strictlyAbove(marketCap, ms, reached, last) ==
    IF Len(ms) = 0 \/ marketCap <= 0
    THEN [reachedMilestones |-> reached, lastMarketCap |-> last, emitted |-> <<>>]
    ELSE LET r == CheckMilestonesFrom(ms, 1, marketCap - 1, reached)
         IN [reachedMilestones |-> r.reachedMilestones,
             lastMarketCap     |-> marketCap,
             emitted           |-> r.emitted]

\* checkMilestones(marketCap)
CheckMilestones(marketCap, ms, reached, last) ==
    IF Len(ms) = 0 \/ marketCap <= 0
    THEN [reachedMilestones |-> reached, lastMarketCap |-> last, emitted |-> <<>>]
    ELSE LET r == CheckMilestonesFrom(ms, 1, marketCap, reached)
         IN [reachedMilestones |-> r.reachedMilestones,
             lastMarketCap     |-> marketCap,
             emitted           |-> r.emitted]

\* checkMarketCap after fetchTokenStats has returned stats.
CheckMarketCapResumed(stats, ms, reached, last) ==
    IF stats.kind = "null" \/ stats.marketCap = 0
    THEN [reachedMilestones |-> reached, lastMarketCap |-> last, emitted |-> <<>>]
    ELSE CheckMilestones(stats.marketCap, ms, reached, last)

\* The loop of checkMilestones when the listener of 'milestone' throws:
\* emit() passes the exception on, nothing in checkMilestones catches it,
\* and the loop ends at the first milestone announced.
RECURSIVE CheckMilestonesFromThrown(_, _, _, _)
CheckMilestonesFromThrown(ms, i, marketCap, reached) ==
    IF i > Len(ms)
    THEN [reachedMilestones |-> reached, emitted |-> <<>>, thrown |-> FALSE]
    ELSE LET milestone == ms[i]
         IN IF milestone \in reached
            THEN CheckMilestonesFromThrown(ms, i + 1, marketCap, reached)
            ELSE IF marketCap >= milestone
            THEN [reachedMilestones |-> reached \cup {milestone},
                  emitted |-> << [type      |-> "milestone",
                                  milestone |-> milestone,
                                  marketCap |-> marketCap] >>,
                  thrown  |-> TRUE]
            ELSE CheckMilestonesFromThrown(ms, i + 1, marketCap, reached)

\* checkMilestones(marketCap) when the listener of 'milestone' throws: the
\* assignment of lastMarketCap after the loop is not reached.
CheckMilestonesThrown(marketCap, ms, reached, last) ==
    IF Len(ms) = 0 \/ marketCap <= 0
    THEN [reachedMilestones |-> reached, lastMarketCap |-> last, emitted |-> <<>>]
    ELSE LET r == CheckMilestonesFromThrown(ms, 1, marketCap, reached)
         IN [reachedMilestones |-> r.reachedMilestones,
             lastMarketCap     |-> IF r.thrown THEN last ELSE marketCap,
             emitted           |-> r.emitted]

\* checkMarketCap after fetchTokenStats has returned stats, when the
\* listener of 'milestone' throws: its catch logs the exception.
CheckMarketCapResumedThrown(stats, ms, reached, last) ==
    IF stats.kind = "null" \/ stats.marketCap = 0
    THEN [reachedMilestones |-> reached, lastMarketCap |-> last, emitted |-> <<>>]
    ELSE CheckMilestonesThrown(stats.marketCap, ms, reached, last)

----------------------------------------------------------------------------
(* Bookkeeping of what was emitted.                                        *)

\* The largest valid sample once checkMarketCap has handed the market cap
\* of stats to checkMilestones: a sample is valid when it is positive.
LargerSample(largest, stats) ==
    IF stats.kind = "stats" /\ stats.marketCap > largest
    THEN stats.marketCap ELSE largest

\* How many events of the type with the key are in a list of events.
NumOf(events, type, field, key) ==
    Cardinality({i \in 1..Len(events) :
                    events[i].type = type /\ events[i][field] = key})

Counted(count, events) ==
    [transfer  |-> [s \in DOMAIN count.transfer |->
                      count.transfer[s] + NumOf(events, "transfer", "signature", s)],
     newHolder |-> [o \in DOMAIN count.newHolder |->
                      count.newHolder[o] + NumOf(events, "newHolder", "wallet", o)],
     alert     |-> [s \in DOMAIN count.alert |->
                      count.alert[s] + NumOf(events, "alert", "signature", s)],
     milestone |-> [m \in DOMAIN count.milestone |->
                      count.milestone[m] + NumOf(events, "milestone", "milestone", m)]]

\* The owners the changes touch, each with the postAmount of the last change
\* that touches it; the owners they do not touch keep their entry of `last`.
Touched(last, changes) ==
    LET touching(o) == {i \in 1..Len(changes) : changes[i].owner = o}
        final(o)    == CHOOSE i \in touching(o) : \A j \in touching(o) : j <= i
    IN [o \in (DOMAIN last) \cup {changes[i].owner : i \in 1..Len(changes)} |->
          IF touching(o) # {} THEN changes[final(o)].postAmount ELSE last[o]]

NoneCounted(ms) ==
    [transfer  |-> [s \in Range(LedgerSignature) |-> 0],
     newHolder |-> [o \in Owners |-> 0],
     alert     |-> [s \in Range(LedgerSignature) |-> 0],
     milestone |-> [m \in ms |-> 0]]

----------------------------------------------------------------------------
(* ContestReminders.  Time is counted in hours.                            *)

\* A Date: null (the field was never assigned), Invalid Date, or a time.
NoDate      == [kind |-> "null"]
InvalidDate == [kind |-> "invalid"]
DateAt(t)   == [kind |-> "date", time |-> t]

\* CONTEST_START_TIME / CONTEST_END_TIME: Unset, a string that is not a
\* date, or the ISO string of a time.
NotADate      == [kind |-> "text"]
DateString(t) == [kind |-> "iso", time |-> t]

\* new Date(string)
NewDate(str) == IF str.kind = "iso" THEN DateAt(str.time) ELSE InvalidDate

\* loadContestTimes: both fields are assigned before they are validated,
\* and the validation only logs and returns.
LoadContestTimes(startTimeEnv, endTimeEnv) ==
    IF startTimeEnv.kind = "unset" \/ endTimeEnv.kind = "unset"
    THEN [contestStartTime |-> NoDate, contestEndTime |-> NoDate]
    ELSE [contestStartTime |-> NewDate(startTimeEnv),
          contestEndTime   |-> NewDate(endTimeEnv)]

\* getReminderTime(targetTime, hoursBefore)
GetReminderTime(targetTime, hoursBefore) ==
    IF targetTime.kind = "date" THEN DateAt(targetTime.time - hoursBefore)
    ELSE InvalidDate

\* dateToCron(date): the fields of an Invalid Date are NaN.
DateToCron(date) ==
    IF date.kind = "date" THEN [valid |-> TRUE, at |-> date.time]
    ELSE [valid |-> FALSE]

\* A comparison that finds no reminder time in the past.
InThePast_never(reminderTime, now) == FALSE

\* reminderTime < new Date(): a comparison with NaN is false.
InThePast(reminderTime, now) ==
    reminderTime.kind = "date" /\ reminderTime.time < now

\* scheduleReminder: the jobs afterwards, and whether it threw;
\* cron.schedule validates the expression and throws on an invalid one.
ScheduleReminder(jobList, reminderTime, type, hoursBefore, now) ==
    IF InThePast(reminderTime, now) THEN [jobs |-> jobList, thrown |-> FALSE]
    ELSE LET cronExpression == DateToCron(reminderTime)
         IN IF ~cronExpression.valid THEN [jobs |-> jobList, thrown |-> TRUE]
            ELSE [jobs   |-> Append(jobList, [type        |-> type,
                                              hoursBefore |-> hoursBefore,
                                              at          |-> cronExpression.at,
                                              running     |-> FALSE]),
                  thrown |-> FALSE]

\* The six reminders start() schedules, in its order.
Reminders(startTime, endTime) ==
    << [time |-> GetReminderTime(startTime, 24), type |-> "start", hoursBefore |-> 24],
       [time |-> GetReminderTime(startTime, 1),  type |-> "start", hoursBefore |-> 1],
       [time |-> startTime,                      type |-> "start", hoursBefore |-> 0],
       [time |-> GetReminderTime(endTime, 24),   type |-> "end",   hoursBefore |-> 24],
       [time |-> GetReminderTime(endTime, 1),    type |-> "end",   hoursBefore |-> 1],
       [time |-> endTime,                        type |-> "end",   hoursBefore |-> 0] >>

\* The calls of scheduleReminder in start() from the i-th on; an exception
\* ends them.
RECURSIVE ScheduleFrom(_, _, _, _)
ScheduleFrom(reminders, i, jobList, now) ==
    IF i > Len(reminders) THEN [jobs |-> jobList, thrown |-> FALSE]
    ELSE LET r == ScheduleReminder(jobList, reminders[i].time, reminders[i].type,
                                   reminders[i].hoursBefore, now)
         IN IF r.thrown THEN r
            ELSE ScheduleFrom(reminders, i + 1, r.jobs, now)

\* ContestReminders.start(): what it returns, whether it throws, and the
\* jobs and isScheduled afterwards.  The Discord client is always provided.
ContestStarted(startTime, endTime, jobList, scheduled, now) ==
    IF startTime.kind = "null" \/ endTime.kind = "null" \/ scheduled
    THEN [returned |-> FALSE, thrown |-> FALSE, jobs |-> jobList,
          isScheduled |-> scheduled]
    ELSE LET r == ScheduleFrom(Reminders(startTime, endTime), 1, jobList, now)
         IN IF r.thrown
            THEN [returned |-> FALSE, thrown |-> TRUE, jobs |-> r.jobs,
                  isScheduled |-> scheduled]
            ELSE [returned |-> TRUE, thrown |-> FALSE,
                  jobs |-> [j \in DOMAIN r.jobs |-> [r.jobs[j] EXCEPT !.running = TRUE]],
                  isScheduled |-> TRUE]

\* getScheduledCount()
GetScheduledCount(jobList) == Len(jobList)

\* process.env as the ready handler reads it: whether the ledger
\* connection is configured ("unset", "invalid-mint" or "ok"), and the
\* settings of the optional features.
Env(solana, vaultsEnv, largeBuyUsdEnv, milestonesEnv, contestStartEnv, contestEndEnv) ==
    [SOLANA                |-> solana,
     AMM_VAULTS            |-> vaultsEnv,
     LARGE_BUY_USD         |-> largeBuyUsdEnv,
     MARKET_CAP_MILESTONES |-> milestonesEnv,
     CONTEST_START_TIME    |-> contestStartEnv,
     CONTEST_END_TIME      |-> contestEndEnv]

----------------------------------------------------------------------------
(* The pipeline: ledger feed, resolver, detectors, large-buy alerts.       *)

\* The state after construction of all components and one start() of each
\* of those in `started`, with a feed that announces `feed` signatures, a
\* timer that fires `ticks` times, `calls` calls of the public operations
\* to come, and the environment settings given.
ConstructedInit(started, feed, calls, vaultsEnv, largeBuyUsdEnv, milestonesEnv, ticks, contestStartEnv, contestEndEnv) ==
    /\ listening = SetToBag(started)
    /\ handlerRef = started
    /\ thresholdEnv = largeBuyUsdEnv
    /\ feedLeft = feed
    /\ callsLeft = calls
    /\ pendingTx = EmptyBag
    /\ ammVaults = LoadAmmVaults(vaultsEnv)
    /\ walletBalances = EmptyMap
    /\ alertedWallets = {}
    /\ threshold = LoadThreshold(largeBuyUsdEnv)
    /\ sentAlerts = {}
    /\ pendingBuys = EmptyBag
    /\ milestones = LoadMilestones(milestonesEnv)
    /\ reachedMilestones = {}
    /\ lastMarketCap = 0
    /\ isMonitoring = FALSE
    /\ pendingPolls = 0
    /\ ticksLeft = ticks
    /\ lastOp = [op |-> "init"]
    /\ emitted = <<>>
    /\ emitCount = NoneCounted(Range(milestones))
    /\ lastPost = EmptyMap
    /\ failedSends = {}
    /\ largestSample = 0
    /\ resets = {}
    /\ readyState = "done"
    /\ voiceTimer = TRUE
    /\ voiceUpdates = 1
    /\ LET times == LoadContestTimes(contestStartEnv, contestEndEnv)
       IN /\ contestStartTime = times.contestStartTime
          /\ contestEndTime = times.contestEndTime
    /\ jobs = <<>>
    /\ isScheduled = FALSE
    /\ clock = 0

\* The same with no contest configured.
ProcessInit(started, feed, calls, vaultsEnv, largeBuyUsdEnv, milestonesEnv, ticks) ==
    ConstructedInit(started, feed, calls, vaultsEnv, largeBuyUsdEnv, milestonesEnv,
                    ticks, Unset, Unset)

\* The components with the threshold of the purchase path configured.
ComponentsInit(started, feed, vaultsEnv, milestonesEnv, ticks) ==
    ProcessInit(started, feed, MaxApiCalls, vaultsEnv, LARGE_BUY_USD,
                milestonesEnv, ticks)

\* The pipeline alone: no milestones configured.
PipelineInit(started, feed, vaultsEnv) ==
    ComponentsInit(started, feed, vaultsEnv, <<>>, 0)

\* The feed announces a signature: handleLogs calls parseTransaction, which
\* runs up to its await of getTransaction.
HandleLogs(signature) ==
    /\ feedLeft > 0
    /\ feedLeft' = feedLeft - 1
    /\ pendingTx' = pendingTx (+) SetToBag({signature})
    /\ lastOp' = [op |-> "handleLogs", signature |-> signature]
    /\ emitted' = <<>>
    /\ UNCHANGED <<appVars, contestVars, listening, handlerRef, buyVars, holderVars, alertVars, mcapVars,
                   historyVars, apiVars>>

\* emit('transfer', ...) for the events of `transfers` (none or one): every
\* subscribed handler of detectBuy and of handleTransfer runs as a listener,
\* and every subscribed handler of handleBuy runs as a listener of 'buy' up
\* to its await of fetchTokenStats.  `throwing` holds the events ('buy',
\* 'newHolder') whose listener registered by the application throws; the
\* application registers its listener of 'buy' before LargeBuyAlerts starts,
\* so when it throws, emit('buy') does not reach handleBuy.
EmitTransferTo(transfers, throwing) ==
    LET buys    == IF transfers # <<>>
                   THEN Repeated(DetectBuy(transfers[1], ammVaults),
                                 CopiesIn("buyDetector", listening))
                   ELSE <<>>
        fetches == IF "buy" \in throwing THEN EmptyBag
                   ELSE StartedFetches(
                            Repeated(buys, CopiesIn("largeBuyAlerts", listening)),
                            sentAlerts)
        holder  == IF transfers # <<>>
                   THEN TransferHandlers(CopiesIn("newHolderDetector", listening),
                                         transfers[1], walletBalances,
                                         alertedWallets, "newHolder" \in throwing)
                   ELSE [walletBalances |-> walletBalances,
                         alertedWallets |-> alertedWallets,
                         emitted        |-> <<>>]
    IN /\ pendingBuys' = pendingBuys (+) fetches
       /\ walletBalances' = holder.walletBalances
       /\ alertedWallets' = holder.alertedWallets
       /\ emitted' = transfers \o buys \o holder.emitted
       /\ emitCount' = Counted(emitCount, emitted')
       /\ lastPost' = IF transfers # <<>> /\ BagIn("newHolderDetector", listening)
                      THEN Touched(lastPost, transfers[1].changes)
                      ELSE lastPost
       /\ UNCHANGED <<appVars, contestVars, listening, handlerRef, buyVars, threshold, thresholdEnv,
                      sentAlerts, mcapVars, apiVars, failedSends, largestSample>>

\* emit('transfer', ...) when no listener of the application throws.
EmitTransfer(transfers) == EmitTransferTo(transfers, {})

\* A resolver that serializes its fetches: the result of a fetch is used
\* only when no other fetch is pending.
ParseTransactionResume_serialized(signature, tx) ==
    /\ BagIn(signature, pendingTx)
    /\ pendingTx' = pendingTx (-) SetToBag({signature})
    /\ EmitTransfer(IF pendingTx (-) SetToBag({signature}) = EmptyBag
                    THEN ParseTransaction(signature, tx, TOKEN_MINT)
                    ELSE <<>>)
    /\ lastOp' = [op |-> "parseTransaction", signature |-> signature,
                  result |-> tx.kind, rejected |-> ParseTransactionRejects(tx)]
    /\ UNCHANGED feedLeft

\* getTransaction returns tx for a pending signature: the rest of
\* parseTransaction, with the listeners of the event it emits.
ParseTransactionResume(signature, tx) ==
    /\ BagIn(signature, pendingTx)
    /\ pendingTx' = pendingTx (-) SetToBag({signature})
    /\ EmitTransfer(ParseTransaction(signature, tx, TOKEN_MINT))
    /\ lastOp' = [op |-> "parseTransaction", signature |-> signature,
                  result |-> tx.kind, rejected |-> ParseTransactionRejects(tx)]
    /\ UNCHANGED feedLeft

\* The listener emits one 'transfer' event (a signature announced and
\* resolved with no other resolution in between).
DeliverTransfer(transferData) ==
    /\ feedLeft > 0
    /\ feedLeft' = feedLeft - 1
    /\ EmitTransfer(<<transferData>>)
    /\ lastOp' = [op |-> "transfer", signature |-> transferData.signature]
    /\ UNCHANGED pendingTx

\* fetchTokenStats returns tokenStats to a pending handleBuy.
HandleBuyResume(buyData, tokenStats) ==
    /\ BagIn(buyData, pendingBuys)
    /\ pendingBuys' = pendingBuys (-) SetToBag({buyData})
    /\ LET r == HandleBuyResumed(buyData, tokenStats, sentAlerts, threshold)
       IN /\ sentAlerts' = r.sentAlerts
          /\ emitted' = r.emitted
          /\ emitCount' = Counted(emitCount, emitted')
    /\ lastOp' = [op |-> "handleBuy", buyData |-> buyData, tokenStats |-> tokenStats]
    /\ UNCHANGED <<appVars, contestVars, listenerVars, buyVars, holderVars, threshold, thresholdEnv,
                   mcapVars, apiVars, lastPost, failedSends, largestSample>>

\* fetchTokenStats returns tokenStats to a pending handleBuy, whose
\* sendMessage then meets `channel`.
HandleBuySend(buyData, tokenStats, channel) ==
    /\ BagIn(buyData, pendingBuys)
    /\ pendingBuys' = pendingBuys (-) SetToBag({buyData})
    /\ LET r == HandleBuySent(buyData, tokenStats, sentAlerts, threshold, channel)
       IN /\ sentAlerts' = r.sentAlerts
          /\ emitted' = r.emitted
          /\ emitCount' = Counted(emitCount, emitted')
          /\ failedSends' = IF r.failed THEN failedSends \cup {buyData.signature}
                            ELSE failedSends
    /\ lastOp' = [op |-> "handleBuy", buyData |-> buyData, tokenStats |-> tokenStats]
    /\ UNCHANGED <<appVars, contestVars, listenerVars, buyVars, holderVars, threshold, thresholdEnv,
                   mcapVars, apiVars, lastPost, largestSample>>

\* LargeBuyAlerts.clearCache()
ClearCache ==
    /\ sentAlerts' = {}
    /\ callsLeft > 0
    /\ callsLeft' = callsLeft - 1
    /\ resets' = resets \cup {"clearCache"}
    /\ lastOp' = [op |-> "clearCache"]
    /\ emitted' = <<>>
    /\ UNCHANGED <<appVars, contestVars, listenerVars, buyVars, holderVars, threshold, thresholdEnv,
                   pendingBuys, mcapVars, historyVars>>

\* clear() that empties the Balance Map only.
Clear_keepsAlerted ==
    /\ walletBalances' = EmptyMap
    /\ alertedWallets' = alertedWallets
    /\ callsLeft > 0
    /\ callsLeft' = callsLeft - 1
    /\ resets' = resets \cup {"clear"}
    /\ lastOp' = [op |-> "clear"]
    /\ emitted' = <<>>
    /\ UNCHANGED <<appVars, contestVars, listenerVars, buyVars, alertVars, mcapVars, historyVars>>

\* NewHolderDetector.clear()
Clear ==
    /\ walletBalances' = EmptyMap
    /\ alertedWallets' = {}
    /\ callsLeft > 0
    /\ callsLeft' = callsLeft - 1
    /\ resets' = resets \cup {"clear"}
    /\ lastOp' = [op |-> "clear"]
    /\ emitted' = <<>>
    /\ UNCHANGED <<appVars, contestVars, listenerVars, buyVars, alertVars, mcapVars, historyVars>>

\* NewHolderDetector.setBalance(walletAddress, balance)
SetBalance(walletAddress, balance) ==
    /\ walletBalances' = MapSet(walletBalances, walletAddress, balance)
    /\ callsLeft > 0
    /\ callsLeft' = callsLeft - 1
    /\ resets' = resets \cup {"setBalance"}
    /\ lastOp' = [op |-> "setBalance"]
    /\ emitted' = <<>>
    /\ UNCHANGED <<appVars, contestVars, listenerVars, buyVars, alertedWallets, alertVars, mcapVars,
                   historyVars>>

\* The purchase path: TokenListener, BuyDetector and LargeBuyAlerts started.
Init == PipelineInit({"buyDetector", "largeBuyAlerts"}, MaxAnnounce, AMM_VAULTS)

Next ==
    \/ \E signature \in Signatures : HandleLogs(signature)
    \/ \E signature \in Signatures, tx \in PurchaseTxResults :
          ParseTransactionResume(signature, tx)
    \/ \E buyData \in BagToSet(pendingBuys), tokenStats \in PipelineStats :
          HandleBuyResume(buyData, tokenStats)
    \/ ClearCache

Spec == Init /\ [][Next]_vars

----------------------------------------------------------------------------
(* The purchase path with a notifier that can fail: the same signature may *)
(* be announced again after the send of its alert has failed.              *)

NextSend ==
    \/ \E signature \in Signatures : HandleLogs(signature)
    \/ \E signature \in Signatures, tx \in PurchaseTxResults :
          ParseTransactionResume(signature, tx)
    \/ \E buyData \in BagToSet(pendingBuys), tokenStats \in PipelineStats,
          channel \in Channels :
          HandleBuySend(buyData, tokenStats, channel)

SpecSend == Init /\ [][NextSend]_vars

\* The holder path: NewHolderDetector started, handling the 'transfer' events
\* the resolver can emit for transactions over two accounts of one wallet and
\* an account of another.
HolderOwners == {AccountOwner[a] : a \in {2, 3, 4}}
HolderTxs == TxsOver({2, 3}, Amounts) \cup TxsOver({2, 4}, Amounts)

\* The events the resolver can emit for the n-th transaction of the ledger.
TransfersOfLedger ==
    [n \in DOMAIN LedgerSignature |->
        UNION { {t[i] : i \in DOMAIN t} :
                t \in {ParseTransaction(LedgerSignature[n], tx, TOKEN_MINT) :
                          tx \in HolderTxs} }]

HolderTransfers(n) ==
    IF n \in DOMAIN LedgerSignature THEN TransfersOfLedger[n] ELSE {}

InitHolder == PipelineInit({"newHolderDetector"}, MaxTransfers, AMM_VAULTS)

NextHolder ==
    \/ \E transferData \in HolderTransfers(feedLeft) : DeliverTransfer(transferData)
    \/ Clear
    \/ \E walletAddress \in HolderOwners, balance \in Amounts :
          SetBalance(walletAddress, balance)

SpecHolder == InitHolder /\ [][NextHolder]_vars

----------------------------------------------------------------------------
(* The purchase classifier alone: BuyDetector started, handling one        *)
(* 'transfer' event the resolver can emit for a transaction over three     *)
(* token accounts, with pool accounts configured in several ways.          *)

BuyAmounts  == 0..MaxBuyAmount
BuyVaultEnvs == { <<"P">>, <<"P", "C">>, <<"not-base58", "B">> }

BuyTransfers ==
    UNION { {t[i] : i \in DOMAIN t} :
            t \in {ParseTransaction(LedgerSignature[1], tx, TOKEN_MINT) :
                      tx \in TxsOver({1, 2, 3}, BuyAmounts)} }

InitBuy ==
    \E vaultsEnv \in BuyVaultEnvs : PipelineInit({"buyDetector"}, 1, vaultsEnv)

NextBuy ==
    \E transferData \in BuyTransfers : DeliverTransfer(transferData)

SpecBuy == InitBuy /\ [][NextBuy]_vars

----------------------------------------------------------------------------
(* The holder tracker on a ledger it has not seen from the start:          *)
(* NewHolderDetector started with an empty Balance Map, handling events    *)
(* for wallets that may have held tokens before.                           *)

\* The events the resolver can emit for a transaction over an account of
\* each of two wallets, with balances up to MaxBuyAmount.
SeenTransfers ==
    UNION { {t[i] : i \in DOMAIN t} :
            t \in {ParseTransaction(LedgerSignature[1], tx, TOKEN_MINT) :
                      tx \in TxsOver({2, 4}, BuyAmounts)} }

InitSeen == PipelineInit({"newHolderDetector"}, MaxTransfers, AMM_VAULTS)

NextSeen ==
    \/ \E transferData \in SeenTransfers : DeliverTransfer(transferData)
    \/ Clear

SpecSeen == InitSeen /\ [][NextSeen]_vars

----------------------------------------------------------------------------
(* The milestone tracker: startMonitoring, the interval timer, the polls   *)
(* and the operations of its interface.                                    *)

\* MARKET_CAP_MILESTONES: every list of one or two settings, and a list of
\* three milestones.
MilestoneSettings == {NotANumber} \cup {Num(n) : n \in 0..MaxCap}
MilestoneEnvs ==
    {<<a>> : a \in MilestoneSettings}
    \cup {<<a, b>> : a \in MilestoneSettings, b \in MilestoneSettings}
    \cup {<<Num(2), Num(3), Num(4)>>}

\* What fetchTokenStats can yield to a poll: null, or statistics whose
\* market cap is negative, 0 (missing) or positive.
MarketCapStats == {[kind |-> "null"]} \cup {Stats(0, c) : c \in -1..MaxCap + 1}

InitMilestones ==
    \E milestonesEnv \in MilestoneEnvs :
        ComponentsInit({}, 0, AMM_VAULTS, milestonesEnv, MaxTicks)

\* startMonitoring(intervalMs): the initial checkMarketCap runs up to its
\* await of fetchTokenStats, and the interval timer is set.
StartMonitoring ==
    /\ Len(milestones) # 0
    /\ ~isMonitoring
    /\ pendingPolls' = pendingPolls + 1
    /\ isMonitoring' = TRUE
    /\ lastOp' = [op |-> "startMonitoring"]
    /\ emitted' = <<>>
    /\ UNCHANGED <<appVars, contestVars, listenerVars, buyVars, holderVars, alertVars, milestones,
                   reachedMilestones, lastMarketCap, ticksLeft, historyVars, apiVars>>

\* The interval timer fires: checkMarketCap runs up to its await.
Tick ==
    /\ isMonitoring
    /\ ticksLeft > 0
    /\ ticksLeft' = ticksLeft - 1
    /\ pendingPolls' = pendingPolls + 1
    /\ lastOp' = [op |-> "tick"]
    /\ emitted' = <<>>
    /\ UNCHANGED <<appVars, contestVars, listenerVars, buyVars, holderVars, alertVars, milestones,
                   reachedMilestones, lastMarketCap, isMonitoring, historyVars,
                   apiVars>>

\* fetchTokenStats returns stats to a pending checkMarketCap.
CheckMarketCapResume(stats) ==
    /\ pendingPolls > 0
    /\ pendingPolls' = pendingPolls - 1
    /\ LET r == CheckMarketCapResumed(stats, milestones, reachedMilestones,
                                      lastMarketCap)
       IN /\ reachedMilestones' = r.reachedMilestones
          /\ lastMarketCap' = r.lastMarketCap
          /\ emitted' = r.emitted
          /\ emitCount' = Counted(emitCount, emitted')
    /\ largestSample' = LargerSample(largestSample, stats)
    /\ lastOp' = [op |-> "checkMarketCap", stats |-> stats]
    /\ UNCHANGED <<appVars, contestVars, listenerVars, buyVars, holderVars, alertVars, milestones,
                   isMonitoring, ticksLeft, apiVars, lastPost, failedSends>>

\* stopMonitoring()
StopMonitoring ==
    /\ callsLeft > 0
    /\ callsLeft' = callsLeft - 1
    /\ resets' = resets \cup {"stopMonitoring"}
    /\ isMonitoring' = FALSE
    /\ lastOp' = [op |-> "stopMonitoring"]
    /\ emitted' = <<>>
    /\ UNCHANGED <<appVars, contestVars, listenerVars, buyVars, holderVars, alertVars, milestones,
                   reachedMilestones, lastMarketCap, pendingPolls, ticksLeft,
                   historyVars>>

\* markMilestoneReached(milestone)
MarkMilestoneReached(milestone) ==
    /\ callsLeft > 0
    /\ callsLeft' = callsLeft - 1
    /\ resets' = resets \cup {"markMilestoneReached"}
    /\ reachedMilestones' = reachedMilestones \cup {milestone}
    /\ lastOp' = [op |-> "markMilestoneReached", milestone |-> milestone]
    /\ emitted' = <<>>
    /\ UNCHANGED <<appVars, contestVars, listenerVars, buyVars, holderVars, alertVars, milestones,
                   lastMarketCap, isMonitoring, pendingPolls, ticksLeft,
                   historyVars>>

\* clearReachedMilestones()
ClearReachedMilestones ==
    /\ callsLeft > 0
    /\ callsLeft' = callsLeft - 1
    /\ resets' = resets \cup {"clearReachedMilestones"}
    /\ reachedMilestones' = {}
    /\ lastOp' = [op |-> "clearReachedMilestones"]
    /\ emitted' = <<>>
    /\ UNCHANGED <<appVars, contestVars, listenerVars, buyVars, holderVars, alertVars, milestones,
                   lastMarketCap, isMonitoring, pendingPolls, ticksLeft,
                   historyVars>>

NextMilestones ==
    \/ StartMonitoring
    \/ Tick
    \/ \E stats \in MarketCapStats : CheckMarketCapResume(stats)
    \/ StopMonitoring
    \/ \E milestone \in 1..MaxCap : MarkMilestoneReached(milestone)
    \/ ClearReachedMilestones

SpecMilestones == InitMilestones /\ [][NextMilestones]_vars

----------------------------------------------------------------------------
(* The lifecycle of the detectors: start() and stop() called in any order, *)
(* with one purchase delivered at any point.                               *)

Components == {"buyDetector", "newHolderDetector", "largeBuyAlerts"}

\* The names of the lifecycle operations in the record of calls.
StartOp == [buyDetector       |-> "BuyDetector.start",
            newHolderDetector |-> "NewHolderDetector.start",
            largeBuyAlerts    |-> "LargeBuyAlerts.start"]
StopOp  == [buyDetector       |-> "BuyDetector.stop",
            newHolderDetector |-> "NewHolderDetector.stop",
            largeBuyAlerts    |-> "LargeBuyAlerts.stop"]

\* The value start() returns: false when the component is not configured
\* (no pool account, threshold 0); the upstream emitter and the Discord
\* client are always provided.  There is no check of isListening.
StartReturns(component, vaults, thr) ==
    IF component = "buyDetector" THEN Len(vaults) # 0
    ELSE IF component = "largeBuyAlerts" THEN thr # 0
    ELSE TRUE

\* start(): a new handler is stored in the handler field and subscribed.
Start(component) ==
    /\ callsLeft > 0
    /\ callsLeft' = callsLeft - 1
    /\ LET returned == StartReturns(component, ammVaults, threshold)
       IN /\ listening' = IF returned THEN listening (+) SetToBag({component})
                          ELSE listening
          /\ handlerRef' = IF returned THEN handlerRef \cup {component}
                           ELSE handlerRef
          /\ lastOp' = [op |-> "start", component |-> component,
                        returned |-> returned]
    /\ resets' = resets \cup {StartOp[component]}
    /\ emitted' = <<>>
    /\ UNCHANGED <<appVars, contestVars, feedLeft, pendingTx, buyVars, holderVars, alertVars, mcapVars,
                   historyVars>>

\* stop(): removeListener of the handler the handler field holds, if any.
Stop(component) ==
    /\ callsLeft > 0
    /\ callsLeft' = callsLeft - 1
    /\ listening' = IF component \in handlerRef
                    THEN listening (-) SetToBag({component})
                    ELSE listening
    /\ handlerRef' = handlerRef \ {component}
    /\ resets' = resets \cup {StopOp[component]}
    /\ lastOp' = [op |-> "stop", component |-> component]
    /\ emitted' = <<>>
    /\ UNCHANGED <<appVars, contestVars, feedLeft, pendingTx, buyVars, holderVars, alertVars, mcapVars,
                   historyVars>>

\* LARGE_BUY_USD unset, not a number, negative, 0, or a positive threshold.
ThresholdEnvs == {Unset, NotANumber, Num(-1), Num(0), LARGE_BUY_USD}

\* The Transfer Events of a purchase from the pool account by a wallet.
LifecycleTransfers ==
    UNION { {t[i] : i \in DOMAIN t} :
            t \in {ParseTransaction(LedgerSignature[1], tx, TOKEN_MINT) :
                      tx \in TxsOver({1, 2}, 0..1)} }

InitLifecycle ==
    \E largeBuyUsdEnv \in ThresholdEnvs :
        ProcessInit({}, 1, MaxLifecycleCalls, AMM_VAULTS, largeBuyUsdEnv, <<>>, 0)

NextLifecycle ==
    \/ \E component \in Components : Start(component)
    \/ \E component \in Components : Stop(component)
    \/ \E transferData \in LifecycleTransfers : DeliverTransfer(transferData)
    \/ \E buyData \in BagToSet(pendingBuys), tokenStats \in PipelineStats :
          HandleBuyResume(buyData, tokenStats)

SpecLifecycle == InitLifecycle /\ [][NextLifecycle]_vars

----------------------------------------------------------------------------
(* Fetches that race: the feed announces the transactions of the ledger in *)
(* ledger order, each once; their fetches complete in any order; the       *)
(* holder tracker handles the events.                                      *)

\* The signature the feed announces when `left` announcements are to come.
Announced(left) ==
    IF MaxAnnounce - left + 1 \in DOMAIN LedgerSignature
    THEN {LedgerSignature[MaxAnnounce - left + 1]}
    ELSE {}

\* The results a racing fetch can have: no usable transaction, or a
\* transaction over two token accounts.
RaceTxResults == NoTxResults \cup TxsOver({2, 3}, Amounts)

InitRace == PipelineInit({"newHolderDetector"}, MaxAnnounce, AMM_VAULTS)

NextRace ==
    \/ \E signature \in Announced(feedLeft) : HandleLogs(signature)
    \/ \E signature \in BagToSet(pendingTx), tx \in RaceTxResults :
          ParseTransactionResume(signature, tx)

SpecRace == InitRace /\ [][NextRace]_vars

\* The same race with fetched transactions that move nothing or the
\* largest amount.
ExtremeTxResults == NoTxResults \cup TxsOver({2, 3}, {0, MaxAmount})

NextExtremes ==
    \/ \E signature \in Announced(feedLeft) : HandleLogs(signature)
    \/ \E signature \in BagToSet(pendingTx), tx \in ExtremeTxResults :
          ParseTransactionResume(signature, tx)

SpecExtremes == InitRace /\ [][NextExtremes]_vars

----------------------------------------------------------------------------
(* The lifecycle of the listener: TokenListener.start() and stop() called  *)
(* while the feed announces signatures and their fetches are in flight.    *)
(* "tokenListener" is in `listening` once for each logs subscription and   *)
(* in handlerRef when subscriptionId holds a subscription.                 *)

\* TokenListener.start() with SOLANA_RPC_WS and TOKEN_MINT valid: a
\* connection is made, onLogs subscribes and subscriptionId is overwritten.
ListenerStart ==
    /\ callsLeft > 0
    /\ callsLeft' = callsLeft - 1
    /\ listening' = listening (+) SetToBag({"tokenListener"})
    /\ handlerRef' = handlerRef \cup {"tokenListener"}
    /\ resets' = resets \cup {"TokenListener.start"}
    /\ lastOp' = [op |-> "TokenListener.start", returned |-> TRUE]
    /\ emitted' = <<>>
    /\ UNCHANGED <<appVars, contestVars, feedLeft, pendingTx, buyVars, holderVars, alertVars, mcapVars,
                   historyVars>>

\* TokenListener.stop(), to its end: removeOnLogsListener of the
\* subscription that subscriptionId holds, if any.  The fetches in flight
\* are not touched and the connection is kept.
ListenerStop ==
    /\ callsLeft > 0
    /\ callsLeft' = callsLeft - 1
    /\ listening' = IF "tokenListener" \in handlerRef
                    THEN listening (-) SetToBag({"tokenListener"})
                    ELSE listening
    /\ handlerRef' = handlerRef \ {"tokenListener"}
    /\ resets' = resets \cup {"TokenListener.stop"}
    /\ lastOp' = [op |-> "TokenListener.stop"]
    /\ emitted' = <<>>
    /\ UNCHANGED <<appVars, contestVars, feedLeft, pendingTx, buyVars, holderVars, alertVars, mcapVars,
                   historyVars>>

\* The callback of onLogs: the feed reaches handleLogs only through a
\* subscription.
OnLogs(signature) ==
    /\ BagIn("tokenListener", listening)
    /\ HandleLogs(signature)

InitStop ==
    ProcessInit({"tokenListener", "newHolderDetector"}, MaxAnnounce,
                MaxLifecycleCalls, AMM_VAULTS, Unset, <<>>, 0)

NextStop ==
    \/ ListenerStart
    \/ ListenerStop
    \/ \E signature \in Announced(feedLeft) : OnLogs(signature)
    \/ \E signature \in BagToSet(pendingTx), tx \in RaceTxResults :
          ParseTransactionResume(signature, tx)

SpecStop == InitStop /\ [][NextStop]_vars

----------------------------------------------------------------------------
(* The resolver alone: one announced signature, resolved to any            *)
(* transaction over two accounts of one wallet and an account of another.  *)

ResolveTxResults == NoTxResults \cup SnapshotTxs({2, 3, 4}, Amounts)

\* The feed announces a signature, getTransaction returns tx and the rest of
\* parseTransaction runs, with no other step in between.
Resolve(signature, tx) ==
    /\ feedLeft > 0
    /\ feedLeft' = feedLeft - 1
    /\ EmitTransfer(ParseTransaction(signature, tx, TOKEN_MINT))
    /\ lastOp' = [op |-> "resolve", signature |-> signature, tx |-> tx]
    /\ UNCHANGED pendingTx

InitResolve == PipelineInit({}, 1, AMM_VAULTS)

NextResolve == \E tx \in ResolveTxResults : Resolve(LedgerSignature[1], tx)

SpecResolve == InitResolve /\ [][NextResolve]_vars

----------------------------------------------------------------------------
(* The resolver on transactions that move several tokens: one announced    *)
(* signature, resolved to a transaction whose token accounts hold the      *)
(* tracked token or another one.                                           *)

OTHER_MINT == "OTHER"

\* tx with the accounts of `others` holding the other token.
Reminted(tx, others) ==
    LET OfMint(balances) ==
            [i \in DOMAIN balances |->
                IF balances[i].accountIndex \in others
                THEN [balances[i] EXCEPT !.mint = OTHER_MINT]
                ELSE balances[i]]
    IN [tx EXCEPT !.meta.preTokenBalances  = OfMint(@),
                  !.meta.postTokenBalances = OfMint(@)]

MintTxResults ==
    NoTxResults
    \cup {Reminted(tx, others) : tx \in TxsOver({2, 3, 4}, Amounts),
                                 others \in SUBSET {2, 3, 4}}

InitMints == PipelineInit({}, 1, AMM_VAULTS)

NextMints == \E tx \in MintTxResults : Resolve(LedgerSignature[1], tx)

SpecMints == InitMints /\ [][NextMints]_vars

----------------------------------------------------------------------------
(* The reset operations: all components started, a purchase delivered up   *)
(* to twice, two polls, and the three reset operations called at any point.*)

\* fetchTokenStats yields nothing, or a price and a market cap.
ResetStats == {[kind |-> "null"], Stats(MaxPrice, MaxCap)}

InitReset ==
    ProcessInit(Components, 2, MaxResets, AMM_VAULTS, LARGE_BUY_USD, <<Num(2)>>, 1)

NextReset ==
    \/ \E transferData \in LifecycleTransfers : DeliverTransfer(transferData)
    \/ \E buyData \in BagToSet(pendingBuys), tokenStats \in ResetStats :
          HandleBuyResume(buyData, tokenStats)
    \/ StartMonitoring
    \/ Tick
    \/ \E stats \in ResetStats : CheckMarketCapResume(stats)
    \/ ClearCache
    \/ Clear
    \/ ClearReachedMilestones

SpecReset == InitReset /\ [][NextReset]_vars

----------------------------------------------------------------------------
(* The running process: all components started, the feed, the timer, the   *)
(* polls, and every public operation called from outside.                  *)

\* fetchTokenStats yields nothing, or a price with a low or a high market cap.
ProcessStats == {[kind |-> "null"], Stats(MaxPrice, 1), Stats(MaxPrice, MaxCap)}

InitProcess ==
    ProcessInit(Components, 1, MaxProcessCalls, AMM_VAULTS, LARGE_BUY_USD,
                <<Num(1), Num(2)>>, 1)

NextProcess ==
    \/ \E component \in Components : Start(component)
    \/ \E component \in Components : Stop(component)
    \/ \E transferData \in LifecycleTransfers : DeliverTransfer(transferData)
    \/ \E buyData \in BagToSet(pendingBuys), tokenStats \in ProcessStats :
          HandleBuyResume(buyData, tokenStats)
    \/ StartMonitoring
    \/ Tick
    \/ \E stats \in ProcessStats : CheckMarketCapResume(stats)
    \/ StopMonitoring
    \/ \E milestone \in Range(milestones) : MarkMilestoneReached(milestone)
    \/ ClearCache
    \/ Clear
    \/ ClearReachedMilestones

SpecProcess == InitProcess /\ [][NextProcess]_vars

----------------------------------------------------------------------------
(* Everything in flight at once: all components started, two signatures    *)
(* announced, their fetches, the price fetches of the purchases and the    *)
(* polls of the milestone tracker completing in any order.                 *)

\* The fetched transactions move nothing or the largest amount between a
\* pool account and a wallet.
ConcurrentTxResults == NoTxResults \cup TxsOver({1, 2}, {0, MaxAmount})

InitConcurrent ==
    ProcessInit(Components, MaxAnnounce, 0, AMM_VAULTS, LARGE_BUY_USD, <<Num(1)>>, 1)

NextConcurrent ==
    \/ \E signature \in Announced(feedLeft) : HandleLogs(signature)
    \/ \E signature \in BagToSet(pendingTx), tx \in ConcurrentTxResults :
          ParseTransactionResume(signature, tx)
    \/ \E buyData \in BagToSet(pendingBuys), tokenStats \in ProcessStats :
          HandleBuyResume(buyData, tokenStats)
    \/ StartMonitoring
    \/ Tick
    \/ \E stats \in ProcessStats : CheckMarketCapResume(stats)

SpecConcurrent == InitConcurrent /\ [][NextConcurrent]_vars

----------------------------------------------------------------------------
(* Start-up: the handler of the client's 'ready' event reads the           *)
(* environment, constructs and starts the optional components, makes the   *)
(* initial voice-channel update and installs the update timer.             *)

\* Contest times around now (time 0): an hour before, at, or an hour after
\* a whole number of days from now.
ContestTimes == {d * 24 + h : d \in -1..MaxDays, h \in -1..1}
ContestTimeEnvs == {Unset, NotADate} \cup {DateString(t) : t \in ContestTimes}

\* The environments of the ready handler.
ReadyEnvs ==
    {Env(solana, vaultsEnv, largeBuyUsdEnv, milestonesEnv, contestStartEnv, contestEndEnv) :
        solana \in {"unset", "invalid-mint", "ok"},
        vaultsEnv \in {<<>>, <<"not-base58">>, AMM_VAULTS},
        largeBuyUsdEnv \in {Unset, NotANumber, LARGE_BUY_USD},
        milestonesEnv \in {<<>>, <<NotANumber>>, <<Num(2), Num(1)>>},
        contestStartEnv \in ContestTimeEnvs,
        contestEndEnv \in ContestTimeEnvs}

\* The process before the client is ready: no component constructed.
InitReady ==
    /\ listening = EmptyBag
    /\ handlerRef = {}
    /\ thresholdEnv = Unset
    /\ feedLeft = 0
    /\ callsLeft = 0
    /\ pendingTx = EmptyBag
    /\ ammVaults = <<>>
    /\ walletBalances = EmptyMap
    /\ alertedWallets = {}
    /\ threshold = 0
    /\ sentAlerts = {}
    /\ pendingBuys = EmptyBag
    /\ milestones = <<>>
    /\ reachedMilestones = {}
    /\ lastMarketCap = 0
    /\ isMonitoring = FALSE
    /\ pendingPolls = 0
    /\ ticksLeft = 0
    /\ lastOp = [op |-> "init"]
    /\ emitted = <<>>
    /\ emitCount = NoneCounted({})
    /\ lastPost = EmptyMap
    /\ failedSends = {}
    /\ largestSample = 0
    /\ resets = {}
    /\ readyState = "pending"
    /\ voiceTimer = FALSE
    /\ voiceUpdates = 0
    /\ contestStartTime = NoDate
    /\ contestEndTime = NoDate
    /\ jobs = <<>>
    /\ isScheduled = FALSE
    /\ clock = 0

\* client.on('ready', ...) with process.env = e.  The handler has one
\* await, of tokenListener.start(), which does not suspend on anything
\* external; an exception outside its try block rejects the handler's
\* promise and the rest of the handler does not run.
Ready(e) ==
    /\ readyState = "pending"
    /\ LET listenerStarted == e.SOLANA = "ok"
           buyConfigured   == listenerStarted /\ e.AMM_VAULTS # <<>>
           vaults          == IF buyConfigured THEN LoadAmmVaults(e.AMM_VAULTS)
                              ELSE <<>>
           buyStarted      == buyConfigured /\ StartReturns("buyDetector", vaults, 0)
           alertsConfigured == buyStarted /\ e.LARGE_BUY_USD.kind # "unset"
           thr             == IF alertsConfigured THEN LoadThreshold(e.LARGE_BUY_USD)
                              ELSE 0
           alertsStarted   == alertsConfigured
                              /\ StartReturns("largeBuyAlerts", vaults, thr)
           started         == {c \in Components :
                                 \/ c = "buyDetector" /\ buyStarted
                                 \/ c = "largeBuyAlerts" /\ alertsStarted
                                 \/ c = "newHolderDetector" /\ listenerStarted}
           ms              == IF e.MARKET_CAP_MILESTONES # <<>>
                              THEN LoadMilestones(e.MARKET_CAP_MILESTONES)
                              ELSE <<>>
           monitoring      == Len(ms) # 0
           contestConfigured == /\ e.CONTEST_START_TIME.kind # "unset"
                                /\ e.CONTEST_END_TIME.kind # "unset"
           times           == IF contestConfigured
                              THEN LoadContestTimes(e.CONTEST_START_TIME,
                                                    e.CONTEST_END_TIME)
                              ELSE [contestStartTime |-> NoDate,
                                    contestEndTime   |-> NoDate]
           contest         == ContestStarted(times.contestStartTime,
                                             times.contestEndTime, <<>>, FALSE, clock)
       IN /\ listening' = SetToBag(started)
          /\ handlerRef' = started
          /\ ammVaults' = vaults
          /\ thresholdEnv' = e.LARGE_BUY_USD
          /\ threshold' = thr
          /\ milestones' = ms
          /\ emitCount' = NoneCounted(Range(ms))
          /\ isMonitoring' = monitoring
          /\ pendingPolls' = IF monitoring THEN 1 ELSE 0
          /\ contestStartTime' = times.contestStartTime
          /\ contestEndTime' = times.contestEndTime
          /\ jobs' = contest.jobs
          /\ isScheduled' = contest.isScheduled
          /\ readyState' = IF contest.thrown THEN "rejected" ELSE "done"
          /\ voiceUpdates' = IF contest.thrown THEN 0 ELSE 1
          /\ voiceTimer' = ~contest.thrown
          /\ lastOp' = [op |-> "ready", env |-> e,
                        scheduled |-> contest.returned]
    /\ emitted' = <<>>
    /\ UNCHANGED <<feedLeft, pendingTx, holderVars, sentAlerts, pendingBuys,
                   reachedMilestones, lastMarketCap, ticksLeft, apiVars, lastPost,
                   failedSends, largestSample, clock>>

\* The voice-channel update timer fires: updateVoiceChannelName is called.
UpdateVoiceChannelName ==
    /\ voiceTimer
    /\ voiceUpdates <= MaxVoiceUpdates
    /\ voiceUpdates' = voiceUpdates + 1
    /\ lastOp' = [op |-> "updateVoiceChannelName"]
    /\ emitted' = <<>>
    /\ UNCHANGED <<readyState, voiceTimer, contestVars, listenerVars, buyVars,
                   holderVars, alertVars, mcapVars, apiVars, historyVars>>

NextReady ==
    \/ \E e \in ReadyEnvs : Ready(e)
    \/ UpdateVoiceChannelName

SpecReady == InitReady /\ [][NextReady]_vars

----------------------------------------------------------------------------
(* The contest reminders: a ContestReminders constructed from the          *)
(* environment, start() and stop() called in any order while time passes.  *)

\* new ContestReminders(client) with the contest times given.
InitContest ==
    \E contestStartEnv \in ContestTimeEnvs, contestEndEnv \in ContestTimeEnvs :
        ConstructedInit({}, 0, MaxContestCalls, <<>>, Unset, <<>>, 0,
                        contestStartEnv, contestEndEnv)

\* ContestReminders.start()
ContestStart ==
    /\ callsLeft > 0
    /\ callsLeft' = callsLeft - 1
    /\ LET r == ContestStarted(contestStartTime, contestEndTime, jobs,
                               isScheduled, clock)
       IN /\ jobs' = r.jobs
          /\ isScheduled' = r.isScheduled
          /\ lastOp' = [op |-> "ContestReminders.start",
                        returned |-> r.returned, thrown |-> r.thrown]
    /\ resets' = resets \cup {"ContestReminders.start"}
    /\ emitted' = <<>>
    /\ UNCHANGED <<appVars, contestStartTime, contestEndTime, clock, listenerVars,
                   buyVars, holderVars, alertVars, mcapVars, historyVars>>

\* ContestReminders.stop()
ContestStop ==
    /\ callsLeft > 0
    /\ callsLeft' = callsLeft - 1
    /\ jobs' = <<>>
    /\ isScheduled' = FALSE
    /\ lastOp' = [op |-> "ContestReminders.stop"]
    /\ resets' = resets \cup {"ContestReminders.stop"}
    /\ emitted' = <<>>
    /\ UNCHANGED <<appVars, contestStartTime, contestEndTime, clock, listenerVars,
                   buyVars, holderVars, alertVars, mcapVars, historyVars>>

\* An hour passes.
Advance ==
    /\ clock < MaxClock
    /\ clock' = clock + 1
    /\ lastOp' = [op |-> "advance"]
    /\ emitted' = <<>>
    /\ UNCHANGED <<appVars, contestStartTime, contestEndTime, jobs, isScheduled,
                   listenerVars, buyVars, holderVars, alertVars, mcapVars,
                   apiVars, historyVars>>

NextContest ==
    \/ ContestStart
    \/ ContestStop
    \/ Advance

SpecContest == InitContest /\ [][NextContest]_vars

----------------------------------------------------------------------------
(* The pool accounts: a BuyDetector constructed from AMM_VAULTS, then      *)
(* started, stopped and fed one purchase in any order.                     *)

\* AMM_VAULTS: every list of up to two addresses, valid or not.
VaultAddresses == {"P", "C", "not-base58"}
VaultEnvs ==
    {<<>>} \cup {<<a>> : a \in VaultAddresses}
           \cup {<<a, b>> : a \in VaultAddresses, b \in VaultAddresses}

InitVaults == ProcessInit({}, 1, MaxLifecycleCalls, <<>>, LARGE_BUY_USD, <<>>, 0)

\* new BuyDetector(tokenListener) with process.env.AMM_VAULTS = vaultsEnv
ConstructBuyDetector(vaultsEnv) ==
    /\ "new BuyDetector" \notin resets
    /\ ammVaults' = LoadAmmVaults(vaultsEnv)
    /\ resets' = resets \cup {"new BuyDetector"}
    /\ lastOp' = [op |-> "new BuyDetector", env |-> vaultsEnv]
    /\ emitted' = <<>>
    /\ UNCHANGED <<appVars, contestVars, listenerVars, holderVars, alertVars,
                   mcapVars, callsLeft, historyVars>>

NextVaults ==
    \/ \E vaultsEnv \in VaultEnvs : ConstructBuyDetector(vaultsEnv)
    \/ "new BuyDetector" \in resets /\ Start("buyDetector")
    \/ "new BuyDetector" \in resets /\ Stop("buyDetector")
    \/ /\ "new BuyDetector" \in resets
       /\ \E transferData \in LifecycleTransfers : DeliverTransfer(transferData)

SpecVaults == InitVaults /\ [][NextVaults]_vars

----------------------------------------------------------------------------
(* Listeners that throw: all components started, one Transfer Event over   *)
(* a pool account and two wallets, two polls; the listeners the            *)
(* application registered for 'buy', 'newHolder' and 'milestone' may throw.*)

ThrowTransfers ==
    UNION { {t[i] : i \in DOMAIN t} :
            t \in {ParseTransaction(LedgerSignature[1], tx, TOKEN_MINT) :
                      tx \in TxsOver({1, 2, 3}, Amounts)} }

\* The listener emits one 'transfer' event while the listeners of the
\* events in `throwing` throw.
DeliverTransferTo(transferData, throwing) ==
    /\ feedLeft > 0
    /\ feedLeft' = feedLeft - 1
    /\ EmitTransferTo(<<transferData>>, throwing)
    /\ lastOp' = [op |-> "transfer", signature |-> transferData.signature,
                  throwing |-> throwing]
    /\ UNCHANGED pendingTx

\* fetchTokenStats returns stats to a pending checkMarketCap while the
\* listener of 'milestone' throws or not.
CheckMarketCapResumeTo(stats, listenerThrows) ==
    /\ pendingPolls > 0
    /\ pendingPolls' = pendingPolls - 1
    /\ LET r == IF listenerThrows
                THEN CheckMarketCapResumedThrown(stats, milestones,
                                                 reachedMilestones, lastMarketCap)
                ELSE CheckMarketCapResumed(stats, milestones, reachedMilestones,
                                           lastMarketCap)
       IN /\ reachedMilestones' = r.reachedMilestones
          /\ lastMarketCap' = r.lastMarketCap
          /\ emitted' = r.emitted
          /\ emitCount' = Counted(emitCount, emitted')
    /\ largestSample' = LargerSample(largestSample, stats)
    /\ lastOp' = [op |-> "checkMarketCap", stats |-> stats,
                  throwing |-> IF listenerThrows THEN {"milestone"} ELSE {}]
    /\ UNCHANGED <<appVars, contestVars, listenerVars, buyVars, holderVars, alertVars, milestones,
                   isMonitoring, ticksLeft, apiVars, lastPost, failedSends>>

InitThrow ==
    ProcessInit(Components, 1, 0, AMM_VAULTS, LARGE_BUY_USD,
                <<Num(1), Num(2)>>, 1)

NextThrow ==
    \/ \E transferData \in ThrowTransfers, throwing \in SUBSET {"buy", "newHolder"} :
          DeliverTransferTo(transferData, throwing)
    \/ \E buyData \in BagToSet(pendingBuys), tokenStats \in ResetStats :
          HandleBuyResume(buyData, tokenStats)
    \/ StartMonitoring
    \/ Tick
    \/ \E stats \in ResetStats, listenerThrows \in BOOLEAN :
          CheckMarketCapResumeTo(stats, listenerThrows)

SpecThrow == InitThrow /\ [][NextThrow]_vars

----------------------------------------------------------------------------
(* Properties.                                                             *)

\* The events of a type among those of the last step, in emission order.
EmittedOf(type) == SelectSeq(emitted, LAMBDA e : e.type = type)

\* C1: with no clearCache() call, at most one notification is sent per
\* signature, also when the same Purchase Event is delivered again while the
\* price fetch of its first delivery is pending.
C1_AtMostOneAlertPerSignature ==
    "clearCache" \notin resets =>
        \A s \in DOMAIN emitCount.alert : emitCount.alert[s] <= 1

\* C5: TokenListener emits at most one 'transfer' event per signature, also
\* when the feed announces a signature more than once.
C5_AtMostOneTransferPerSignature ==
    \A s \in DOMAIN emitCount.transfer : emitCount.transfer[s] <= 1

\* C2: with no clear() call, every owner produces at most one New Holder
\* Event, also when its balance returns to 0 and becomes positive again.
C2_AtMostOneNewHolderPerOwner ==
    "clear" \notin resets =>
        \A o \in DOMAIN emitCount.newHolder : emitCount.newHolder[o] <= 1

\* C2 witness: an owner alerted by an earlier event is handled in an event
\* that takes its balance to 0 and then to a positive amount, and is not
\* alerted again.
C2_Witness ==
    /\ "clear" \notin resets
    /\ lastOp.op = "transfer"
    /\ EmittedOf("newHolder") = <<>>
    /\ \E i, j \in 1..Len(emitted[1].changes) :
          LET ci == emitted[1].changes[i]
              cj == emitted[1].changes[j]
          IN /\ i < j
             /\ ci.owner = cj.owner
             /\ ci.postAmount = 0
             /\ cj.postAmount > 0
             /\ cj.owner \in alertedWallets
             /\ emitCount.newHolder[cj.owner] = 1

\* C6: with no setBalance() and no clear() call, the Balance Map holds, for
\* every owner, the postAmount of the last change handled for it, and no
\* entry (balance read as 0) for an owner no change has touched.
C6_BalanceIsLastPostBalance ==
    resets \cap {"setBalance", "clear"} = {} =>
        /\ DOMAIN walletBalances = DOMAIN lastPost
        /\ \A o \in DOMAIN lastPost : walletBalances[o] = lastPost[o]
        /\ \A o \in Owners \ DOMAIN lastPost : MapGetOr0(walletBalances, o) = 0

\* C6 witness: an owner was touched by two events, the later one leaving it
\* a different balance, which is the one the Balance Map holds, while another
\* owner has never been touched.
C6_Witness ==
    /\ resets = {}
    /\ feedLeft = MaxTransfers - 2
    /\ lastOp.op = "transfer"
    /\ \E o \in DOMAIN walletBalances :
          /\ emitCount.newHolder[o] = 1
          /\ EmittedOf("newHolder") = <<>>
          /\ \E i \in 1..Len(emitted[1].changes) :
                emitted[1].changes[i].owner = o
          /\ walletBalances[o] = 0
    /\ Owners \ DOMAIN walletBalances # {}

\* What the changes from i on are to emit for the balances and Alerted-Set
\* before them: a New Holder Event for a change exactly when the balance of
\* its owner is 0 or absent, its postAmount is positive and the owner is not
\* in the Alerted-Set, carrying that postAmount and the event's signature.
RECURSIVE ExpectedNewHolders(_, _, _, _)
ExpectedNewHolders(transferData, i, balances, alerted) ==
    IF i > Len(transferData.changes) THEN [alerted |-> alerted, events |-> <<>>]
    ELSE LET c     == transferData.changes[i]
             prior == IF c.owner \in DOMAIN balances THEN balances[c.owner] ELSE 0
             isNew == prior = 0 /\ c.postAmount > 0 /\ c.owner \notin alerted
             rest  == ExpectedNewHolders(
                          transferData, i + 1,
                          [o \in (DOMAIN balances) \cup {c.owner} |->
                              IF o = c.owner THEN c.postAmount ELSE balances[o]],
                          IF isNew THEN alerted \cup {c.owner} ELSE alerted)
         IN IF isNew
            THEN [rest EXCEPT !.events =
                     << [wallet    |-> c.owner,
                         balance   |-> c.postAmount,
                         signature |-> transferData.signature] >> \o @]
            ELSE rest

\* The New Holder Events of the step, as (wallet, balance, signature).
NewHoldersEmitted(events) ==
    [i \in 1..Len(events) |->
        [wallet    |-> events[i].wallet,
         balance   |-> events[i].balance,
         signature |-> events[i].signature]]

\* C9: handling a change for owner O emits a New Holder Event if and only if
\* the Balance Map value of O before the change was 0 or absent, the
\* postAmount is > 0 and O was not in the Alerted-Set; the event carries that
\* postAmount and the signature of the Transfer Event, and O is in the
\* Alerted-Set afterwards.
C9_NewHolderIffFirstPositive ==
    [][ lastOp'.op = "transfer" =>
          LET expected == ExpectedNewHolders(emitted'[1], 1, walletBalances,
                                             alertedWallets)
              got      == SelectSeq(emitted', LAMBDA e : e.type = "newHolder")
          IN /\ NewHoldersEmitted(got) = expected.events
             /\ alertedWallets' = expected.alerted
             /\ \A i \in 1..Len(got) : got[i].wallet \in alertedWallets'
      ]_vars

\* C9 witness: an event with a change that made a new holder and a change to
\* a positive balance that made none.
C9_Witness ==
    /\ lastOp.op = "transfer"
    /\ Len(EmittedOf("newHolder")) = 1
    /\ \E i \in 1..Len(emitted[1].changes) :
          /\ emitted[1].changes[i].postAmount > 0
          /\ emitted[1].changes[i].owner # EmittedOf("newHolder")[1].wallet
    /\ EmittedOf("newHolder")[1].signature = emitted[1].signature
    /\ EmittedOf("newHolder")[1].wallet \in alertedWallets

\* C3: with no clearReachedMilestones() call, each configured milestone
\* value emits at most one 'milestone' event, whatever the samples and
\* however the polls interleave, and a milestone in the reached set stays in
\* it, also when a later sample is below it.
C3_MilestoneAtMostOnce ==
    [][ "clearReachedMilestones" \notin resets' =>
          /\ \A m \in DOMAIN emitCount'.milestone : emitCount'.milestone[m] <= 1
          /\ reachedMilestones \subseteq reachedMilestones'
      ]_vars

\* C3 witness: a poll has returned a valid sample below a milestone that was
\* announced once and is reached, while another poll is still in flight.
C3_Witness ==
    /\ "clearReachedMilestones" \notin resets
    /\ lastOp.op = "checkMarketCap"
    /\ lastOp.stats.kind = "stats"
    /\ lastOp.stats.marketCap > 0
    /\ pendingPolls >= 1
    /\ emitted = <<>>
    /\ \E m \in reachedMilestones :
          /\ m \in DOMAIN emitCount.milestone
          /\ emitCount.milestone[m] = 1
          /\ lastOp.stats.marketCap < m

\* C4: a poll that processes a valid sample c emits exactly one 'milestone'
\* event for each configured milestone m <= c that was unreached before
\* it: all of them, not only the highest.
C4_AllCrossedMilestones ==
    [][ (/\ lastOp'.op = "checkMarketCap"
         /\ lastOp'.stats.kind = "stats"
         /\ lastOp'.stats.marketCap > 0) =>
          LET c   == lastOp'.stats.marketCap
              due == {m \in Range(milestones) : m <= c /\ m \notin reachedMilestones}
          IN /\ \A i \in 1..Len(emitted') : emitted'[i].type = "milestone"
             /\ {emitted'[i].milestone : i \in 1..Len(emitted')} = due
             /\ Len(emitted') = Cardinality(due)
      ]_vars

\* C4 witness: milestones [2, 3, 4]; a third poll announces both 3 and 4,
\* after 2 was announced by an earlier poll.
C4_Witness ==
    /\ milestones = <<2, 3, 4>>
    /\ lastOp.op = "checkMarketCap"
    /\ pendingPolls = 0
    /\ ticksLeft = MaxTicks - 2
    /\ Len(emitted) = 2
    /\ emitted[1].milestone = 3
    /\ emitted[2].milestone = 4
    /\ emitCount.milestone[2] = 1
    /\ resets = {}

\* C7: detectBuy emits exactly one 'buy' event for a Transfer Event whose
\* changes hold at least one negative delta of a pool account and at least
\* one positive delta of an account that is not a pool account, and no 'buy'
\* event for any other Transfer Event.
C7_BuyIffOutflowAndInflow ==
    lastOp.op = "transfer" =>
        LET changes == emitted[1].changes
            pool    == Range(ammVaults)
            outflow == \E i \in 1..Len(changes) :
                          changes[i].change < 0 /\ changes[i].owner \in pool
            inflow  == \E i \in 1..Len(changes) :
                          changes[i].change > 0 /\ changes[i].owner \notin pool
        IN Len(EmittedOf("buy")) = IF outflow /\ inflow THEN 1 ELSE 0

\* C7 witness: a Transfer Event of three changes, two of them wallet
\* inflows, has made one 'buy' event.
C7_Witness ==
    /\ lastOp.op = "transfer"
    /\ Len(EmittedOf("buy")) = 1
    /\ Len(emitted[1].changes) = 3
    /\ \E i, j \in 1..3 :
          /\ i # j
          /\ emitted[1].changes[i].change > 0
          /\ emitted[1].changes[j].change > 0
          /\ {emitted[1].changes[i].owner, emitted[1].changes[j].owner}
                 \cap Range(ammVaults) = {}

\* The sum of the positive deltas of the accounts outside the pool set, from
\* change i on.
RECURSIVE InflowFrom(_, _, _)
InflowFrom(changes, pool, i) ==
    IF i > Len(changes) THEN 0
    ELSE (IF changes[i].change > 0 /\ changes[i].owner \notin pool
          THEN changes[i].change ELSE 0) + InflowFrom(changes, pool, i + 1)

\* C8: a Purchase Event has as buyer the owner of the first positive-delta
\* non-pool change in changes order, as amount the sum of all positive
\* non-pool deltas, and the signature of its Transfer Event.
C8_BuyerIsFirstInflow ==
    \A b \in 1..Len(EmittedOf("buy")) :
        LET buy     == EmittedOf("buy")[b]
            changes == emitted[1].changes
            pool    == Range(ammVaults)
            inflows == {i \in 1..Len(changes) :
                           changes[i].change > 0 /\ changes[i].owner \notin pool}
            first   == CHOOSE i \in inflows : \A j \in inflows : i <= j
        IN /\ inflows # {}
           /\ buy.buyer = changes[first].owner
           /\ buy.amount = InflowFrom(changes, pool, 1)
           /\ buy.signature = emitted[1].signature

\* C8 witness: a Purchase Event whose buyer received less than a later
\* receiver of the same Transfer Event.
C8_Witness ==
    /\ lastOp.op = "transfer"
    /\ Len(EmittedOf("buy")) = 1
    /\ \E i, j \in 1..Len(emitted[1].changes) :
          LET first == emitted[1].changes[i]
              later == emitted[1].changes[j]
              buy   == EmittedOf("buy")[1]
          IN /\ i < j
             /\ first.owner = buy.buyer
             /\ later.owner \notin Range(ammVaults)
             /\ first.change > 0
             /\ later.change > first.change
             /\ buy.amount = first.change + later.change

C11_FailedFetchEmitsNothing ==
    [][ (lastOp'.op = "parseTransaction" /\ lastOp'.result # "tx") =>
          /\ emitted' = <<>>
          /\ ~lastOp'.rejected
          /\ emitCount' = emitCount
          /\ listening' = listening
          /\ pendingTx' = pendingTx (-) SetToBag({lastOp'.signature})
          /\ feedLeft' = feedLeft
          /\ pendingBuys' = pendingBuys
      ]_vars

\* C11 witness: the fetch of a signature has thrown while the fetch of
\* another announcement is in flight and the handlers are subscribed.
C11_Witness ==
    /\ lastOp.op = "parseTransaction"
    /\ lastOp.result = "throws"
    /\ ~lastOp.rejected
    /\ emitted = <<>>
    /\ pendingTx # EmptyBag
    /\ BagIn("buyDetector", listening)

\* The balance an account has in a snapshot: 0 when the snapshot does not
\* list it.
SnapshotAmount(balances, a) ==
    LET listed == {i \in 1..Len(balances) : balances[i].accountIndex = a}
    IN IF listed = {} THEN 0
       ELSE balances[CHOOSE i \in listed : TRUE].uiAmountString[1]

\* C12: the changes of the Transfer Event of a resolved transaction hold
\* exactly one entry for every token account of the tracked asset whose
\* balance differs between the snapshots before and after, also for an
\* account with a positive balance before and no entry after.
C12_OneChangePerChangedAccount ==
    (lastOp.op = "resolve" /\ lastOp.tx.kind = "tx") =>
        LET pre     == lastOp.tx.meta.preTokenBalances
            post    == lastOp.tx.meta.postTokenBalances
            changes == IF emitted = <<>> THEN <<>> ELSE emitted[1].changes
        IN \A a \in Accounts :
              Cardinality({i \in 1..Len(changes) : changes[i].accountIndex = a})
                = IF SnapshotAmount(pre, a) # SnapshotAmount(post, a) THEN 1 ELSE 0

\* C20: the entries of the changes of an emitted Transfer Event have
\* pairwise distinct owners.
C20_DistinctOwnersInChanges ==
    \A e \in 1..Len(EmittedOf("transfer")) :
        LET changes == EmittedOf("transfer")[e].changes
        IN \A i, j \in 1..Len(changes) :
              changes[i].owner = changes[j].owner => i = j

\* C13: when fetchTokenStats yields nothing or a price of 0, handleBuy sends
\* no notification, leaves the Alerted-Set as it was and does not fetch
\* again for that event; the other pending purchases and the subscriptions
\* are as before.
C13_UnpricedBuyIsDropped ==
    [][ (/\ lastOp'.op = "handleBuy"
         /\ \/ lastOp'.tokenStats.kind = "null"
            \/ lastOp'.tokenStats.priceUsd = 0) =>
          /\ emitted' = <<>>
          /\ emitCount' = emitCount
          /\ sentAlerts' = sentAlerts
          /\ pendingBuys' = pendingBuys (-) SetToBag({lastOp'.buyData})
          /\ listening' = listening
          /\ pendingTx' = pendingTx
      ]_vars

\* C13 witness: a purchase got a price of 0 and was dropped while another
\* purchase awaits its price and no signature is in the Alerted-Set.
C13_Witness ==
    /\ lastOp.op = "handleBuy"
    /\ lastOp.tokenStats.kind = "stats"
    /\ lastOp.tokenStats.priceUsd = 0
    /\ emitted = <<>>
    /\ sentAlerts = {}
    /\ pendingBuys # EmptyBag
    /\ BagIn("largeBuyAlerts", listening)

\* C14: a poll that yields no statistics, or a market cap that is missing,
\* 0 or negative, emits no 'milestone' event, leaves the reached set and
\* lastMarketCap as they were, and leaves the timer running.
C14_InvalidSampleIsSkipped ==
    [][ (/\ lastOp'.op = "checkMarketCap"
         /\ \/ lastOp'.stats.kind = "null"
            \/ lastOp'.stats.marketCap <= 0) =>
          /\ emitted' = <<>>
          /\ emitCount' = emitCount
          /\ reachedMilestones' = reachedMilestones
          /\ lastMarketCap' = lastMarketCap
          /\ isMonitoring' = isMonitoring
          /\ ticksLeft' = ticksLeft
      ]_vars

\* C14 witness: a poll has yielded a negative market cap after an earlier
\* poll reached a milestone; the earlier sample is still recorded, the
\* milestone still reached, and the timer has firings to come.
C14_Witness ==
    /\ lastOp.op = "checkMarketCap"
    /\ lastOp.stats.kind = "stats"
    /\ lastOp.stats.marketCap < 0
    /\ emitted = <<>>
    /\ lastMarketCap > 0
    /\ reachedMilestones # {}
    /\ isMonitoring
    /\ ticksLeft > 0

\* C15: when LARGE_BUY_USD is missing, not a number or not positive,
\* LargeBuyAlerts.start() returns false and subscribes no handler, so no
\* handleBuy runs and no notification is sent.
C15_UnconfiguredAlertsNeverStart ==
    (IF thresholdEnv.kind = "num" THEN thresholdEnv.value <= 0 ELSE TRUE) =>
        /\ ~BagIn("largeBuyAlerts", listening)
        /\ "largeBuyAlerts" \notin handlerRef
        /\ pendingBuys = EmptyBag
        /\ \A s \in DOMAIN emitCount.alert : emitCount.alert[s] = 0
        /\ (lastOp.op = "start" /\ lastOp.component = "largeBuyAlerts")
              => ~lastOp.returned

\* C15 witness: with a negative LARGE_BUY_USD, LargeBuyAlerts.start() and
\* BuyDetector.start() have been called and a Purchase Event has been
\* emitted; no handleBuy is pending.
C15_Witness ==
    /\ thresholdEnv = Num(-1)
    /\ {StartOp["largeBuyAlerts"], StartOp["buyDetector"]} \subseteq resets
    /\ lastOp.op = "transfer"
    /\ EmittedOf("buy") # <<>>
    /\ pendingBuys = EmptyBag

\* C17: start() and stop() are idempotent: a component never has more than
\* one handler subscribed, and after stop() it has none.
C17_StartStopIdempotent ==
    /\ \A component \in Components : CopiesIn(component, listening) <= 1
    /\ lastOp.op = "stop" => ~BagIn(lastOp.component, listening)

\* C16: a reset operation empties its Alerted-Set, and an input whose key
\* has been alerted before and is outside the Alerted-Set again produces a
\* new alert when it is delivered and meets its condition: a transfer taking
\* the owner to a positive balance, a purchase worth at least the threshold,
\* a sample at or above the milestone.
C16_ResetIsEffective ==
    [][ /\ lastOp'.op = "clearCache" => sentAlerts' = {}
        /\ lastOp'.op = "clear" => alertedWallets' = {}
        /\ lastOp'.op = "clearReachedMilestones" => reachedMilestones' = {}
        /\ lastOp'.op = "transfer" =>
             LET changes == emitted'[1].changes
                 buys    == SelectSeq(emitted', LAMBDA e : e.type = "buy")
             IN /\ \A i \in 1..Len(changes) :
                      LET o == changes[i].owner
                      IN (/\ emitCount.newHolder[o] >= 1
                          /\ o \notin alertedWallets
                          /\ changes[i].postAmount > 0)
                         => /\ emitCount'.newHolder[o] = emitCount.newHolder[o] + 1
                            /\ o \in alertedWallets'
                /\ \A b \in 1..Len(buys) :
                      (emitCount.alert[buys[b].signature] >= 1
                       /\ buys[b].signature \notin sentAlerts)
                         => CopiesIn(Destructured(buys[b]), pendingBuys')
                              > CopiesIn(Destructured(buys[b]), pendingBuys)
        /\ (/\ lastOp'.op = "handleBuy"
            /\ lastOp'.tokenStats.kind = "stats"
            /\ lastOp'.tokenStats.priceUsd # 0
            /\ lastOp'.buyData.amount * lastOp'.tokenStats.priceUsd >= threshold
            /\ lastOp'.buyData.signature \notin sentAlerts
            /\ emitCount.alert[lastOp'.buyData.signature] >= 1)
             => emitCount'.alert[lastOp'.buyData.signature]
                  = emitCount.alert[lastOp'.buyData.signature] + 1
        /\ (/\ lastOp'.op = "checkMarketCap"
            /\ lastOp'.stats.kind = "stats")
             => \A m \in Range(milestones) :
                   (/\ emitCount.milestone[m] >= 1
                    /\ m \notin reachedMilestones
                    /\ lastOp'.stats.marketCap >= m)
                   => emitCount'.milestone[m] = emitCount.milestone[m] + 1
      ]_vars

\* C16 witness: after clearCache(), clear() and clearReachedMilestones(), a
\* signature, an owner and a milestone have each been alerted a second time.
C16_Witness ==
    /\ {"clearCache", "clear", "clearReachedMilestones"} \subseteq resets
    /\ \E sig \in DOMAIN emitCount.alert : emitCount.alert[sig] = 2
    /\ \E o \in DOMAIN emitCount.newHolder : emitCount.newHolder[o] = 2
    /\ \E m \in DOMAIN emitCount.milestone : emitCount.milestone[m] = 2

\* C18: a listener that throws affects neither the producer nor the other
\* consumers: every subscriber of 'transfer' handles the Transfer Event,
\* NewHolderDetector applies every changes entry of the event to the Balance
\* Map also when the listener of 'newHolder' throws, and
\* MarketCapMilestones emits every qualifying milestone of the poll also
\* when the listener of 'milestone' throws.
C18_ThrowingListenerIsIsolated ==
    [][ /\ lastOp'.op = "transfer" =>
             LET changes == emitted'[1].changes
                 pool    == Range(ammVaults)
                 isBuy   == /\ \E i \in 1..Len(changes) :
                                  changes[i].change < 0 /\ changes[i].owner \in pool
                            /\ \E i \in 1..Len(changes) :
                                  changes[i].change > 0 /\ changes[i].owner \notin pool
                 buys    == SelectSeq(emitted', LAMBDA e : e.type = "buy")
             IN /\ Len(buys) = IF isBuy THEN 1 ELSE 0
                /\ \A i \in 1..Len(changes) :
                      (\A j \in 1..Len(changes) :
                           changes[j].owner = changes[i].owner => j <= i)
                      => /\ changes[i].owner \in DOMAIN walletBalances'
                         /\ walletBalances'[changes[i].owner] = changes[i].postAmount
        /\ (/\ lastOp'.op = "checkMarketCap"
            /\ lastOp'.stats.kind = "stats"
            /\ lastOp'.stats.marketCap > 0)
             => {emitted'[i].milestone : i \in 1..Len(emitted')}
                  = {m \in Range(milestones) :
                        m <= lastOp'.stats.marketCap /\ m \notin reachedMilestones}
      ]_vars

\* C19: with fetches in flight concurrently, a Transfer Event is emitted
\* and applied to the Balance Map when its fetch completes, whatever the
\* order of announcement: the completed fetch's event carries its signature,
\* every owner it touches gets the postAmount of its last entry, every
\* other owner keeps its balance, and an announcement alone changes nothing;
\* so the Balance Map is the result of applying the events in completion
\* order.
C19_AppliedInCompletionOrder ==
    [][ /\ lastOp'.op = "handleLogs" =>
             emitted' = <<>> /\ walletBalances' = walletBalances
        /\ (lastOp'.op = "parseTransaction" /\ emitted' = <<>>) =>
             walletBalances' = walletBalances
        /\ (lastOp'.op = "parseTransaction" /\ emitted' # <<>>) =>
             LET changes == emitted'[1].changes
                 touched == {changes[i].owner : i \in 1..Len(changes)}
             IN /\ emitted'[1].signature = lastOp'.signature
                /\ DOMAIN walletBalances' = (DOMAIN walletBalances) \cup touched
                /\ \A i \in 1..Len(changes) :
                      (\A j \in 1..Len(changes) :
                           changes[j].owner = changes[i].owner => j <= i)
                      => walletBalances'[changes[i].owner] = changes[i].postAmount
                /\ \A o \in (DOMAIN walletBalances) \ touched :
                      walletBalances'[o] = walletBalances[o]
        /\ walletBalances' = lastPost'
      ]_vars

\* C19 witness: the fetch of the transaction announced first completes
\* after the event of the transaction announced second was applied; its
\* event overwrites the balance that later transaction left.
C19_Witness ==
    /\ lastOp.op = "parseTransaction"
    /\ lastOp.signature = LedgerSignature[1]
    /\ emitCount.transfer[LedgerSignature[2]] = 1
    /\ emitCount.transfer[LedgerSignature[1]] = 1
    /\ emitted # <<>>
    /\ \E i \in 1..Len(emitted[1].changes) :
          LET c == emitted[1].changes[i]
          IN /\ walletBalances[c.owner] = c.postAmount
             /\ c.preAmount = 0
             /\ c.owner \in alertedWallets
             /\ emitCount.newHolder[c.owner] = 1
             /\ EmittedOf("newHolder") = <<>>

\* C21: ticks of the milestone poller never overlap: at most one
\* checkMarketCap poll is waiting for its market-data fetch at any time.
C21_TicksNeverOverlap == pendingPolls <= 1

\* C22: each Alerted-Set is append-only: across every step other than its
\* own reset operation (clearCache for sentAlerts, clear for
\* alertedWallets, clearReachedMilestones for reachedMilestones) the set
\* after the step contains the set before; start, stop, event handling and
\* polling never empty a set.
C22_AlertedSetsAppendOnly ==
    [][ /\ lastOp'.op # "clearCache" => sentAlerts \subseteq sentAlerts'
        /\ lastOp'.op # "clear" => alertedWallets \subseteq alertedWallets'
        /\ lastOp'.op # "clearReachedMilestones" =>
              reachedMilestones \subseteq reachedMilestones'
      ]_vars

\* C22 witness: with all three Alerted-Sets non-empty and no reset called,
\* a component has been stopped, and a later poll has added a second
\* milestone to a reached set that held one.
C22_Witness ==
    /\ sentAlerts # {}
    /\ alertedWallets # {}
    /\ reachedMilestones = {1, 2}
    /\ lastOp.op = "checkMarketCap"
    /\ Len(emitted) = 1
    /\ resets \cap {"clearCache", "clear", "clearReachedMilestones"} = {}
    /\ resets \cap Range(StopOp) # {}

\* C23: the milestone list is strictly ascending, hence without a duplicate
\* value, after loading and at every later time, for every configured
\* input.
C23_MilestonesStrictlyAscending ==
    \A i \in 1..Len(milestones), j \in 1..Len(milestones) :
        i < j => milestones[i] < milestones[j]

\* C24: for every configuration of the optional features, malformed
\* values included, the ready handler does not abort: once it has run, the
\* initial voice-channel update has been made and the periodic update
\* timer is installed.
C24_ReadyHandlerCompletes ==
    readyState # "pending" => (voiceTimer /\ voiceUpdates >= 1)

\* C25: a New Holder Event is emitted for a wallet only when the
\* triggering Transfer Event has a change of that wallet whose
\* pre-transaction balance is 0 and whose post-transaction balance is
\* positive.
C25_NewHolderOnlyFromZero ==
    [][ lastOp'.op = "transfer" =>
          \A k \in 1..Len(emitted') :
              emitted'[k].type = "newHolder" =>
                 \E i \in 1..Len(emitted'[1].changes) :
                     LET c == emitted'[1].changes[i]
                     IN /\ c.owner = emitted'[k].wallet
                        /\ c.preAmount = 0
                        /\ c.postAmount > 0
      ]_vars

\* The six reminder times of a contest, in the order start() takes them.
SixTimes(startTime, endTime) ==
    << startTime - 24, startTime - 1, startTime,
       endTime - 24, endTime - 1, endTime >>

\* C26: with both contest times valid, start() while not scheduled
\* schedules one reminder for each of the six times that is not in the
\* past and none for a time in the past, so getScheduledCount() is the
\* number of those times; start() while scheduled returns false and adds
\* no job.
C26_OneReminderPerFutureTime ==
    [][ (/\ lastOp'.op = "ContestReminders.start"
         /\ contestStartTime.kind = "date"
         /\ contestEndTime.kind = "date") =>
          IF isScheduled
          THEN lastOp'.returned = FALSE /\ jobs' = jobs
          ELSE LET times == SixTimes(contestStartTime.time, contestEndTime.time)
                   due   == {i \in 1..6 : times[i] >= clock}
               IN /\ ~lastOp'.thrown
                  /\ GetScheduledCount(jobs') = Cardinality(due)
                  /\ \A i \in due :
                        Cardinality({j \in 1..Len(jobs') :
                            /\ jobs'[j].at = times[i]
                            /\ jobs'[j].type = (IF i <= 3 THEN "start" ELSE "end")
                            /\ jobs'[j].hoursBefore = Reminders(contestStartTime,
                                                        contestEndTime)[i].hoursBefore
                            /\ jobs'[j].running}) = 1
                  /\ \A j \in 1..Len(jobs') : jobs'[j].at >= clock
      ]_vars

\* C26 witness: a second start() while scheduled has returned false, with
\* some of the six reminders scheduled and the others, in the past, not.
C26_Witness ==
    /\ lastOp.op = "ContestReminders.start"
    /\ ~lastOp.returned
    /\ isScheduled
    /\ contestStartTime.kind = "date"
    /\ contestEndTime.kind = "date"
    /\ GetScheduledCount(jobs) \in 1..5
    /\ \E i \in 1..6 :
          SixTimes(contestStartTime.time, contestEndTime.time)[i] < clock

\* C27: loading the pool addresses keeps the valid ones, in their order,
\* and drops the others without throwing; start() returns true and
\* subscribes if a valid address remains, returns false and subscribes
\* nothing if none remains; no later step modifies the pool set.
C27_InvalidPoolAddressesDropped ==
    [][ /\ lastOp'.op = "new BuyDetector" =>
             LET addresses == lastOp'.env
                 valid     == {i \in 1..Len(addresses) : addresses[i] \in Owners}
             IN /\ Len(ammVaults') = Cardinality(valid)
                /\ \A i \in valid :
                      ammVaults'[Cardinality({j \in valid : j <= i})] = addresses[i]
        /\ lastOp'.op # "new BuyDetector" => ammVaults' = ammVaults
        /\ (lastOp'.op = "start" /\ lastOp'.component = "buyDetector") =>
             /\ lastOp'.returned = (Len(ammVaults) >= 1)
             /\ IF Len(ammVaults) >= 1
                THEN listening' = listening (+) SetToBag({"buyDetector"})
                ELSE listening' = listening
      ]_vars

\* C27 witness: a list with an invalid address before a valid one has
\* been loaded as the valid one alone.
C27_Witness ==
    /\ lastOp.op = "new BuyDetector"
    /\ lastOp.env = <<"not-base58", "P">>
    /\ ammVaults = <<"P">>

\* The wallets and balances of the 'newHolder' events among `events`.
NewHolderSet(events) ==
    {[wallet |-> events[k].wallet, balance |-> events[k].balance] :
        k \in {k \in 1..Len(events) : events[k].type = "newHolder"}}

\* C28: handling a Transfer Event gives the same Balance Map, the same
\* Alerted-Set and the same set of New Holder Events (owner and balance)
\* as handling it with its changes entries in any other order.
C28_ChangesOrderIrrelevant ==
    [][ lastOp'.op = "transfer" =>
          LET transferData == emitted'[1]
              changes      == transferData.changes
          IN \A p \in Permutations(1..Len(changes)) :
                LET permuted == [transferData EXCEPT
                                   !.changes = [i \in 1..Len(changes) |-> changes[p[i]]]]
                    r == HandleTransfer(permuted, walletBalances, alertedWallets)
                IN /\ r.walletBalances = walletBalances'
                   /\ r.alertedWallets = alertedWallets'
                   /\ NewHolderSet(r.emitted) = NewHolderSet(emitted')
      ]_vars

\* C29: the 'milestone' events of one poll are emitted in ascending order
\* of milestone value, in whatever order the milestones were configured.
C29_MilestonesEmittedAscending ==
    [][ lastOp'.op = "checkMarketCap" =>
          \A i \in 1..Len(emitted'), j \in 1..Len(emitted') :
              i < j => emitted'[i].milestone < emitted'[j].milestone
      ]_vars

\* C29 witness: one poll has crossed the milestones 1 and 3 and announced
\* 1 before 3.
C29_Witness ==
    /\ lastOp.op = "checkMarketCap"
    /\ lastOp.stats.kind = "stats"
    /\ lastOp.stats.marketCap = 3
    /\ Len(emitted) = 2
    /\ emitted[1].milestone = 1
    /\ emitted[2].milestone = 3
    /\ reachedMilestones = {1, 3}

\* C30: every emitted Transfer Event has a non-empty changes list in which
\* every entry is of the tracked token, has change = postAmount -
\* preAmount with the amounts of its account in the transaction's
\* snapshots, and has change # 0; a resolved transaction in which no
\* account of the tracked token changes its balance produces no Transfer
\* Event.
C30_ChangesAreTrackedNonZeroDeltas ==
    lastOp.op = "resolve" =>
        /\ \A e \in 1..Len(emitted) :
              emitted[e].type = "transfer" =>
                 LET changes == emitted[e].changes
                 IN /\ changes # <<>>
                    /\ \A i \in 1..Len(changes) :
                          LET c == changes[i]
                          IN /\ c.mint = TOKEN_MINT
                             /\ c.preAmount = SnapshotAmount(
                                    lastOp.tx.meta.preTokenBalances, c.accountIndex)
                             /\ c.postAmount = SnapshotAmount(
                                    lastOp.tx.meta.postTokenBalances, c.accountIndex)
                             /\ c.change = c.postAmount - c.preAmount
                             /\ c.change # 0
        /\ (/\ lastOp.tx.kind = "tx"
            /\ \A i \in 1..Len(lastOp.tx.meta.postTokenBalances) :
                  LET b == lastOp.tx.meta.postTokenBalances[i]
                  IN \/ b.mint # TOKEN_MINT
                     \/ SnapshotAmount(lastOp.tx.meta.preTokenBalances, b.accountIndex)
                          = b.uiAmountString[1])
             => emitted = <<>>

\* C30 witness: a transaction changed the balance of an account of the
\* other token and of an account of the tracked token; the Transfer Event
\* holds the one change of the tracked token.
C30_Witness ==
    /\ lastOp.op = "resolve"
    /\ lastOp.tx.kind = "tx"
    /\ \E i \in 1..Len(lastOp.tx.meta.postTokenBalances) :
          LET b == lastOp.tx.meta.postTokenBalances[i]
          IN /\ b.mint = OTHER_MINT
             /\ SnapshotAmount(lastOp.tx.meta.preTokenBalances, b.accountIndex)
                  # b.uiAmountString[1]
    /\ Len(emitted) = 1
    /\ Len(emitted[1].changes) = 1
    /\ Len(lastOp.tx.meta.postTokenBalances) = 3

\* C31: fetches for distinct signatures are independent: whenever the
\* fetch of a signature completes with a transaction that has a nonzero
\* change of the tracked token, a Transfer Event of that signature is
\* emitted in that step, whatever the fetches of the other announced
\* signatures do (pending, never completing, returning none, failing).
C31_FetchesAreIndependent ==
    [][ lastOp'.op = "parseTransaction" =>
          \A tx \in ExtremeTxResults :
            LET signature == lastOp'.signature
            IN (/\ tx.kind = lastOp'.result
                /\ ParseTransaction(signature, tx, TOKEN_MINT) # <<>>
                /\ ParseTransactionResume(signature, tx))
               => /\ emitted' # <<>>
                  /\ emitted'[1].type = "transfer"
                  /\ emitted'[1].signature = signature
                  /\ emitCount'.transfer[signature]
                        = emitCount.transfer[signature] + 1
      ]_vars

\* C31 witness: the Transfer Event of the signature announced second has
\* been emitted while the fetch of the signature announced first is still
\* pending.
C31_Witness ==
    /\ lastOp.op = "parseTransaction"
    /\ lastOp.signature = LedgerSignature[2]
    /\ emitted # <<>>
    /\ emitted[1].signature = LedgerSignature[2]
    /\ BagIn(LedgerSignature[1], pendingTx)
    /\ emitCount.transfer[LedgerSignature[1]] = 0

\* C32: a Transfer Event is handled by handleTransfer and detectBuy in one
\* step, without suspending: the step that emits it applies all of its
\* changes to the Balance Map, adds to the Alerted-Set only owners it
\* touches and emits the Purchase Event of detectBuy; no other step
\* (announcement, failed fetch, price fetch, timer, poll) writes the
\* Balance Map or the Alerted-Set.
C32_TransferHandledInOneStep ==
    [][ IF lastOp'.op = "parseTransaction" /\ emitted' # <<>>
        THEN LET transferData == emitted'[1]
                 changes == transferData.changes
                 touched == {changes[i].owner : i \in 1..Len(changes)}
             IN /\ walletBalances' = Touched(walletBalances, changes)
                /\ alertedWallets \subseteq alertedWallets'
                /\ alertedWallets' \subseteq alertedWallets \cup touched
                /\ SelectSeq(emitted', LAMBDA e : e.type = "buy")
                     = DetectBuy(transferData, ammVaults)
        ELSE walletBalances' = walletBalances /\ alertedWallets' = alertedWallets
      ]_vars

\* C32 witness: a Transfer Event with two changes has been handled whole
\* while another fetch and a poll were in flight, and the price fetch of
\* its purchase is in flight now.
C32_Witness ==
    /\ lastOp.op = "parseTransaction"
    /\ emitted # <<>>
    /\ Len(emitted[1].changes) = 2
    /\ DOMAIN walletBalances = {"P", "B"}
    /\ pendingTx # EmptyBag
    /\ pendingPolls >= 1
    /\ pendingBuys # EmptyBag

\* C33: when a contest time is set but is not a date, start() returns
\* false without throwing and schedules no reminder job.
C33_InvalidTimeDisablesReminders ==
    (/\ lastOp.op = "ContestReminders.start"
     /\ InvalidDate \in {contestStartTime, contestEndTime})
    => /\ lastOp.returned = FALSE
       /\ ~lastOp.thrown
       /\ jobs = <<>>

\* C34: the signature is in the Alerted-Set when its send has failed and
\* stays there; a Purchase Event delivered after a failed send of its
\* signature starts no price fetch and no send.
C34_FailedSendIsNotRetried ==
    [][ /\ failedSends' \subseteq sentAlerts'
        /\ \A i \in 1..Len(emitted') :
              (emitted'[i].type = "buy" /\ emitted'[i].signature \in failedSends)
              => /\ \A b \in BagToSet(pendingBuys') :
                       b.signature = emitted'[i].signature
                       => CopiesIn(b, pendingBuys') <= CopiesIn(b, pendingBuys)
                 /\ \A j \in 1..Len(emitted') : emitted'[j].type # "alert"
      ]_vars

\* C34 witness: a Purchase Event whose signature had a failed send has just
\* been delivered again and no handleBuy is awaiting a price for it.
C34_Witness ==
    /\ lastOp.op = "parseTransaction"
    /\ lastOp.signature \in failedSends
    /\ \E i \in 1..Len(emitted) :
          emitted[i].type = "buy" /\ emitted[i].signature = lastOp.signature
    /\ pendingBuys = EmptyBag
    /\ emitCount.alert[lastOp.signature] = 1

\* The signatures of the notifications handed to sendMessage by a step.
AlertsSent(events) ==
    {events[i].signature : i \in {j \in 1..Len(events) : events[j].type = "alert"}}

\* C35: sentAlerts holds exactly the signatures for which a send was
\* initiated since the last clearCache(): clearCache() empties it, every
\* other step adds the signatures of the sends it initiates and nothing
\* else, so a purchase discarded for want of a price or for its value
\* leaves it unchanged; before any clearCache() it is the set of
\* signatures alerted so far.
C35_SentAlertsAreTheSendsSinceClear ==
    [][ /\ IF lastOp'.op = "clearCache"
           THEN sentAlerts' = {}
           ELSE sentAlerts' = sentAlerts \cup AlertsSent(emitted')
        /\ "clearCache" \notin resets'
           => sentAlerts' = {s \in DOMAIN emitCount'.alert : emitCount'.alert[s] > 0}
        /\ (/\ lastOp'.op = "handleBuy"
            /\ \/ lastOp'.tokenStats.kind = "null"
               \/ lastOp'.buyData.amount * lastOp'.tokenStats.priceUsd < threshold)
           => sentAlerts' = sentAlerts /\ emitted' = <<>>
      ]_vars

\* C35 witness: after an alert and a clearCache(), a send has been
\* initiated again and its signature is the only one in sentAlerts while
\* two signatures have been alerted in all.
C35_Witness ==
    /\ lastOp.op = "handleBuy"
    /\ AlertsSent(emitted) # {}
    /\ "clearCache" \in resets
    /\ sentAlerts = AlertsSent(emitted)
    /\ \E s \in DOMAIN emitCount.alert : s \notin sentAlerts /\ emitCount.alert[s] > 0

\* C36: while markMilestoneReached and clearReachedMilestones have not been
\* called, the reached set is exactly the set of configured milestones
\* that are <= the largest valid sample processed so far.
C36_ReachedUpToLargestSample ==
    resets \cap {"markMilestoneReached", "clearReachedMilestones"} = {}
    => reachedMilestones = {m \in Range(milestones) : m <= largestSample}

\* C36 witness: after a sample that reached one of two milestones, a
\* smaller valid sample has been processed; the reached set still follows
\* the largest sample, not the last.
C36_Witness ==
    /\ resets \cap {"markMilestoneReached", "clearReachedMilestones"} = {}
    /\ lastOp.op = "checkMarketCap"
    /\ 0 < lastMarketCap
    /\ lastMarketCap < largestSample
    /\ \E m \in reachedMilestones : lastMarketCap < m
    /\ Range(milestones) \ reachedMilestones # {}

\* C37: every wallet in alertedWallets is a key of walletBalances, after
\* any sequence of handleTransfer, setBalance and clear.
C37_AlertedWalletsAreTracked ==
    alertedWallets \subseteq DOMAIN walletBalances

\* C37 witness: after a clear(), a transfer has emptied a wallet that was
\* alerted since; the wallet is still a key, with balance 0, and another
\* key was set without an alert.
C37_Witness ==
    /\ "clear" \in resets
    /\ lastOp.op = "transfer"
    /\ \E w \in alertedWallets : w \in DOMAIN walletBalances /\ walletBalances[w] = 0
    /\ DOMAIN walletBalances \ alertedWallets # {}

\* C38: every Purchase Event has amount > 0, a buyer outside the pool set
\* and an ammVault inside it; a Transfer Event whose positive deltas all
\* belong to pool accounts produces no Purchase Event.
C38_PurchaseEventIsWellFormed ==
    LET pool == Range(ammVaults)
    IN /\ \A b \in 1..Len(EmittedOf("buy")) :
             LET buy == EmittedOf("buy")[b]
             IN /\ buy.amount > 0
                /\ buy.buyer \notin pool
                /\ buy.ammVault \in pool
       /\ (/\ lastOp.op = "transfer"
           /\ \A i \in 1..Len(emitted[1].changes) :
                 emitted[1].changes[i].change > 0
                 => emitted[1].changes[i].owner \in pool)
          => EmittedOf("buy") = <<>>

\* C38 witness: a Purchase Event made from a Transfer Event in which a
\* wallet sent tokens, listed before the pool account that sent some.
C38_Witness ==
    /\ lastOp.op = "transfer"
    /\ Len(EmittedOf("buy")) = 1
    /\ \E i, j \in 1..Len(emitted[1].changes) :
          /\ i < j
          /\ emitted[1].changes[i].change < 0
          /\ emitted[1].changes[i].owner \notin Range(ammVaults)
          /\ emitted[1].changes[j].change < 0
          /\ emitted[1].changes[j].owner \in Range(ammVaults)

\* C39: while TokenListener is stopped (stop() has completed and start()
\* has not been called since) no step emits a 'transfer' event.
C39_NoTransferWhileStopped ==
    ~BagIn("tokenListener", listening) => EmittedOf("transfer") = <<>>

====
